---- MODULE Spec2Model ----
(***************************************************************************)
(* State-machine model of the event-driven desktop generation of the       *)
(* English learning assistant: the LLM gateway (OllamaService), the chat   *)
(* service, the event manager / event bus, the Translation model and the   *)
(* two GUI shells' send paths.                                              *)
(***************************************************************************)
EXTENDS Integers, Sequences, FiniteSets, TLC

(***************************************************************************)
(* Bounds of the model                                                      *)
(***************************************************************************)
MaxModels == 2
MaxTurns == 2
MaxRefresh == 1
MaxListLen == 3
MaxHandlers == 2
MaxTrModels == 3
MaxTranslations == 1
MaxSends == 2

(***************************************************************************)
(* Strings.  A model name is a sequence of one-character strings, so that   *)
(* Python's str.lower() and the substring test `a in b` are computed.       *)
(***************************************************************************)
None == <<>>

LowerChar(c) ==
    CASE c = "M" -> "m"
      [] c = "G" -> "g"
      [] c = "L" -> "l"
      [] c = "B" -> "b"
      [] OTHER -> c

Lower(s) == [i \in 1..Len(s) |-> LowerChar(s[i])]

Contains(sub, s) ==
    \E i \in 0..(Len(s) - Len(sub)) : SubSeq(s, i + 1, i + Len(sub)) = sub

S_mistral == <<"m","i","s","t","r","a","l">>
S_gemma == <<"g","e","m","m","a">>
S_llama31 == <<"l","l","a","m","a","3",".","1">>
S_llama3 == <<"l","l","a","m","a","3">>
S_llama2 == <<"l","l","a","m","a","2">>

preferred_order == <<S_mistral, S_gemma, S_llama31, S_llama3, S_llama2>>

max_retries == 3

\* Names the model server may report
N_llama2_7b == <<"l","l","a","m","a","2",":","7","b">>
N_Mistral == <<"M","i","s","t","r","a","l">>
N_llama3_8b == <<"l","l","a","m","a","3",":","8","b">>
N_llama31 == <<"L","l","a","m","a","3",".","1">>
N_phi3 == <<"p","h","i","3">>

ModelNames == {N_llama2_7b, N_Mistral, N_llama3_8b, N_llama31, N_phi3}

RECURSIVE SeqsUpTo(_, _)
SeqsUpTo(S, n) ==
    IF n = 0 THEN {<<>>}
    ELSE LET shorter == SeqsUpTo(S, n - 1)
         IN shorter \cup {Append(s, x) : s \in {t \in shorter : Len(t) = n - 1}, x \in S}

\* the names the model server of the runs below reports
ServerNames == {N_Mistral, N_phi3}

ModelLists == SeqsUpTo(ServerNames, MaxModels)

(***************************************************************************)
(* Texts.  A text has an identity, an amount of surrounding whitespace and  *)
(* a number of characters between the first and the last non-blank one.     *)
(***************************************************************************)
MaxMessageLength == 1000

EmptyText == [id |-> "", pad |-> 0, core |-> 0]

TextLen(t) == t.pad + t.core

Strip(t) == IF t.core = 0 THEN EmptyText ELSE [t EXCEPT !.pad = 0]

validate_message(t) ==
    /\ TextLen(Strip(t)) # 0
    /\ ~(TextLen(Strip(t)) > MaxMessageLength)

(***************************************************************************)
(* LLM gateway (services/ollama_service.py): pure parts                     *)
(***************************************************************************)
Event(kind, t) == [kind |-> kind, turn |-> t]

\* requests.get(.../api/tags) as seen by _check_connection
Probes == {"200", "status", "timeout", "conn_error"}

check_connection(probe) == probe = "200"

\* one attempt of the model-list request
OkList(l) == [kind |-> "ok", models |-> l]
Failed(k) == [kind |-> k, models |-> <<>>]

FailKinds == {Failed("status"), Failed("exception")}

FailSeqs == SeqsUpTo(FailKinds, max_retries)

\* what the server does on the attempts that are made: failures, then either
\* a 200 answer with a model list or nothing more
LoadScripts ==
    {f \in FailSeqs : Len(f) = max_retries}
      \cup {Append(f, OkList(l)) : f \in {g \in FailSeqs : Len(g) < max_retries},
                                   l \in ModelLists}

\* the scan with a case-sensitive substring test
RECURSIVE ScanAvailableCaseSensitive(_, _, _)
ScanAvailableCaseSensitive(p, avail, j) ==
    IF j > Len(avail) THEN None
    ELSE IF Contains(p, avail[j]) THEN avail[j]
    ELSE ScanAvailableCaseSensitive(p, avail, j + 1)

RECURSIVE ScanAvailable(_, _, _)
ScanAvailable(p, avail, j) ==
    IF j > Len(avail) THEN None
    ELSE IF Contains(Lower(p), Lower(avail[j])) THEN avail[j]
    ELSE ScanAvailable(p, avail, j + 1)

RECURSIVE ScanPreferred(_, _)
ScanPreferred(i, avail) ==
    IF i > Len(preferred_order) THEN None
    ELSE LET m == ScanAvailable(preferred_order[i], avail, 1)
         IN IF m # None THEN m ELSE ScanPreferred(i + 1, avail)

select_best_model(avail, dflt) ==
    IF avail = <<>> THEN dflt
    ELSE LET m == ScanPreferred(1, avail)
         IN IF m # None THEN m ELSE avail[1]

\* the attempt without its except clause
load_attempt_control_noexcept(o) ==
    CASE o.kind = "ok" -> "return"
      [] o.kind = "status" -> "next"
      [] o.kind = "exception" -> "raise"

\* where control goes after one attempt of the loop in _load_available_models
load_attempt_control(o) ==
    CASE o.kind = "ok" -> "return"
      [] o.kind = "status" -> "next"
      [] o.kind = "exception" -> "next"

\* the server's answer to the i-th model-list request; it keeps failing after
\* the scripted prefix
OutcomeAt(script, i) == IF i <= Len(script) THEN script[i] ELSE Failed("exception")

RECURSIVE LoadLoop(_, _, _, _)
LoadLoop(attempt, script, avail, dflt) ==
    IF attempt >= max_retries
    THEN [available |-> <<>>, default |-> dflt, events |-> <<"ollama_error">>,
          attempts |-> attempt, raised |-> "none"]
    ELSE LET o == OutcomeAt(script, attempt + 1)
             ctl == load_attempt_control(o)
         IN CASE ctl = "return" ->
                   [available |-> o.models,
                    default |-> select_best_model(o.models, dflt),
                    events |-> <<"ollama_connected">>,
                    attempts |-> attempt + 1, raised |-> "none"]
              [] ctl = "next" -> LoadLoop(attempt + 1, script, avail, dflt)
              [] OTHER ->
                   [available |-> avail, default |-> dflt, events |-> <<>>,
                    attempts |-> attempt + 1, raised |-> "Exception"]

load_available_models(script, avail, dflt) == LoadLoop(0, script, avail, dflt)

initialize_service(probe, script, avail, dflt) ==
    IF check_connection(probe)
    THEN load_available_models(script, avail, dflt)
    ELSE [available |-> avail, default |-> dflt,
          events |-> <<"ollama_disconnected">>, attempts |-> 0, raised |-> "none"]

(***************************************************************************)
(* Generation requests                                                      *)
(***************************************************************************)
Reply == [id |-> "reply", pad |-> 1, core |-> 5]
Blank == [id |-> "", pad |-> 2, core |-> 0]

ApologyEmpty == [id |-> "apology_empty", pad |-> 0, core |-> 56]
ApologyTimeout == [id |-> "apology_timeout", pad |-> 0, core |-> 57]
ApologyError == [id |-> "apology_error", pad |-> 0, core |-> 50]

\* what requests.post(.../api/generate) does
Http(kind, body) == [kind |-> kind, body |-> body]

HttpOutcomes ==
    {Http("200", b) : b \in {Reply, Blank, EmptyText}}
      \cup {Http(k, EmptyText) : k \in {"status", "timeout", "conn_error", "other_exception"}}

RequestResult(raised, value) == [raised |-> raised, value |-> value]

\* a request operation that answers a timeout with the empty text
make_request_swallow(http) ==
    CASE http.kind = "200" -> RequestResult("none", Strip(http.body))
      [] http.kind = "status" -> RequestResult("none", EmptyText)
      [] http.kind = "timeout" -> RequestResult("none", EmptyText)
      [] http.kind = "conn_error" -> RequestResult("OllamaConnectionError", EmptyText)
      [] OTHER -> RequestResult("Exception", EmptyText)

make_request(http) ==
    CASE http.kind = "200" -> RequestResult("none", Strip(http.body))
      [] http.kind = "status" -> RequestResult("none", EmptyText)
      [] http.kind = "timeout" -> RequestResult("OllamaTimeoutError", EmptyText)
      [] http.kind = "conn_error" -> RequestResult("OllamaConnectionError", EmptyText)
      [] OTHER -> RequestResult("Exception", EmptyText)

NoRequest == RequestResult("not_called", EmptyText)

GenResult(raised, caught, events, ret, request) ==
    [raised |-> raised, caught |-> caught, events |-> events, ret |-> ret,
     request |-> request]

generate_response(message, model_arg, dflt, http) ==
    IF ~validate_message(message)
    THEN GenResult("ValueError", "none", <<>>, EmptyText, NoRequest)
    ELSE LET model == IF model_arg # None THEN model_arg ELSE dflt
             r == make_request(http)
         IN IF model = None
            THEN GenResult("none", "ModelNotFoundError",
                           <<"message_sending", "ollama_error">>, ApologyError, NoRequest)
            ELSE IF r.raised = "OllamaTimeoutError"
            THEN GenResult("none", r.raised,
                           <<"message_sending", "ollama_error">>, ApologyTimeout, r)
            ELSE IF r.raised # "none"
            THEN GenResult("none", r.raised,
                           <<"message_sending", "ollama_error">>, ApologyError, r)
            ELSE IF TextLen(r.value) # 0
            THEN GenResult("none", "none",
                           <<"message_sending", "message_received">>, r.value, r)
            ELSE GenResult("none", "none",
                           <<"message_sending", "ollama_error">>, ApologyEmpty, r)

(***************************************************************************)
(* Chat service (services/chat_service.py)                                  *)
(***************************************************************************)
Message(content, type, status) == [content |-> content, type |-> type, status |-> status]

NoMessage == Message(EmptyText, "none", "none")

ErrorText == [id |-> "error_processing", pad |-> 0, core |-> 40]

AppStateInit ==
    [chat_ready |-> TRUE, send_button_enabled |-> TRUE,
     last_message |-> EmptyText, last_response |-> EmptyText,
     messages_sent |-> 0, errors_count |-> 0,
     translations_made |-> 0, last_translation |-> EmptyText]

\* message_sent emitted only after the gateway returned
turn_events_sent_late(gen_events) == gen_events \o <<"message_sent">>

\* the emissions of one turn: send_message emits message_sent, then calls the
\* gateway, which emits its own events
turn_events(gen_events) == <<"message_sent">> \o gen_events

SendResult(raised, ret, sess, st, events, gen) ==
    [raised |-> raised, ret |-> ret, session |-> sess, state |-> st,
     events |-> events, gen |-> gen]

NoGen == GenResult("not_called", "none", <<>>, EmptyText, NoRequest)

send_message(content, http, sess, st, dflt) ==
    IF ~validate_message(content)
    THEN SendResult("ValueError", NoMessage, sess, st, <<>>, NoGen)
    ELSE LET user_message == Message(content, "user", "sent")
             sess1 == Append(sess, user_message)
             st1 == [st EXCEPT !.last_message = content,
                               !.messages_sent = @ + 1]
             g == generate_response(content, None, dflt, http)
         IN IF g.raised = "none"
            THEN LET assistant_message == Message(g.ret, "assistant", "delivered")
                 IN SendResult("none", assistant_message,
                               Append(sess1, assistant_message),
                               [st1 EXCEPT !.last_response = g.ret],
                               turn_events(g.events), g)
            ELSE LET error_message == Message(ErrorText, "error", "error")
                 IN SendResult("none", error_message,
                               Append(sess1, error_message),
                               [st1 EXCEPT !.errors_count = @ + 1],
                               turn_events(g.events), g)

\* EnglishAssistantApp._process_message: the worker thread's body
process_message(content, http, sess, st, dflt) ==
    LET r == send_message(content, http, sess, st, dflt)
    IN IF r.raised = "none" THEN r
       ELSE [r EXCEPT !.raised = "none", !.events = @ \o <<"message_error">>]

Hello == [id |-> "hello", pad |-> 0, core |-> 5]
Padded == [id |-> "hello", pad |-> 2, core |-> 5]
Longest == [id |-> "longest", pad |-> 0, core |-> MaxMessageLength]
TooLong == [id |-> "too_long", pad |-> 0, core |-> MaxMessageLength + 1]

\* MaxMessageLength characters followed by one blank
PaddedLongest == [id |-> "padded_longest", pad |-> 1, core |-> MaxMessageLength]

Texts == {Hello, Blank, Longest, TooLong}

\* what the user may have typed into the input box
Typed == {Padded, Blank, TooLong}

\* InputAreaComponent._can_send
can_send(st) == st.chat_ready /\ st.send_button_enabled

(***************************************************************************)
(* State                                                                    *)
(***************************************************************************)
VARIABLES
    phase,              \* "new" before OllamaService.__init__ ran, then "ready"
    available_models,   \* OllamaService.available_models
    default_model,      \* OllamaService.default_model
    session,            \* ChatService.current_session.messages
    app_state,          \* the AppState keys the chat service writes
    event_log,          \* every event emitted on the EventManager, in order
    turn,               \* number of send_message calls started
    refreshes,          \* number of refresh_models calls
    last_load,          \* what the server answered to the latest model-list load
    last_call           \* the latest call and its outcome

gwVars == <<phase, available_models, default_model, refreshes, last_load>>
chatVars == <<session, app_state, turn>>
callVars == <<event_log, last_call>>

\* variables of the other components, added below
VARIABLES
    sel_phase           \* position inside _load_available_models around _select_best_model

selVars == <<sel_phase>>

VARIABLES
    bus_impl,           \* "EventManager" (core/events.py) or "EventBus" (shared/events)
    bus_handlers,       \* _event_handlers / _subscribers: event kind -> list of handlers
    bus_emit,           \* the latest emit call and what it did
    bus_iter            \* the for loop of an emit in progress on another thread

busVars == <<bus_impl, bus_handlers, bus_emit, bus_iter>>

VARIABLES
    translation,        \* the Translation object of the latest translate_text call
    tr_call             \* the latest translate_text call: input, attempts, outcome

trVars == <<translation, tr_call>>

VARIABLES
    gui_variant,        \* "A": main.py, "B": ui/app.py with ui/components
    gui_button,         \* state option of the Send button widget
    gui_input,          \* whether the input box holds a valid message
    gui_after,          \* callbacks scheduled with after(0, ...), oldest first
    gui_workers         \* position of each worker thread started by a send

guiVars == <<gui_variant, gui_button, gui_input, gui_after, gui_workers>>

VARIABLES
    im_phase,           \* "new" after InteractiveMode.__init__, "running" inside run()
    difficulty,         \* InteractiveMode.difficulty
    user_performance,   \* the two streak counters of InteractiveMode.user_performance
    im_hist             \* the turns and commands of the run so far, oldest first

imVars == <<im_phase, difficulty, user_performance, im_hist>>

VARIABLES
    st_state,           \* AppState._state restricted to the observed keys
    st_observers,       \* AppState._state_observers: key -> list of callbacks
    st_op               \* the latest AppState call and the observer calls it made

stVars == <<st_state, st_observers, st_op>>

VARIABLES
    translation_history,  \* TranslationService.translation_history
    session_translations, \* Session.translations of the owning session
    produced              \* every Translation translate returned, in request order

tsVars == <<translation_history, session_translations, produced>>

VARIABLES
    vl_call             \* the latest send_message or translate call: text and outcome

vlVars == <<vl_call>>

VARIABLES
    errors_memory,      \* ErrorMemoryService.errors_memory: correction -> record
    em_op               \* the latest ErrorMemoryService call and its outcome

emVars == <<errors_memory, em_op>>

VARIABLES
    rt_call             \* the latest call of a function wrapped by retry_on_failure

rtVars == <<rt_call>>

VARIABLES
    sn_clock,           \* what datetime.now() returns
    sn_session,         \* a Session object: end_time and the sizes of its lists
    sn_op               \* the latest operation on the Session

snVars == <<sn_clock, sn_session, sn_op>>

VARIABLES
    mon_variant,        \* "A": main.py check_status_loop, "B": ui/app.py _status_monitor_loop
    mon_pc,             \* position of the status thread: "top", "body", "sleep", "stopped"
    mon_running,        \* EnglishAssistantApp._is_running
    ollama_online,      \* AppState value of 'ollama_online'
    mon_hist,           \* the latest polls, oldest first: probe result and what was emitted
    mon_sleep           \* seconds of the latest time.sleep of the status thread

monVars == <<mon_variant, mon_pc, mon_running, ollama_online, mon_hist, mon_sleep>>

VARIABLES
    cl_pc,              \* position of _on_closing: "open", "cleanup", "cleaned", "destroyed"
    cl_i,               \* index of the component _cleanup_components destroys next
    cl_subs,            \* UIComponent._subscriptions of each component
    cl_registry,        \* handlers and observers registered per event kind and state key
    cl_last,            \* the latest emit or state change and the callbacks it invoked
    cl_late             \* callbacks invoked by an emit or change made after the window was destroyed

closeVars == <<cl_pc, cl_i, cl_subs, cl_registry, cl_last, cl_late>>

VARIABLES
    sc_impl,            \* which Smart-Chat pipeline runs: "modes", "core" or "backend"
    sc_n,               \* user messages processed in this session
    total_messages,     \* SmartChatMode.user_progress.total_messages
    sc_last             \* the latest turn: failing steps, response, whether it aborted

scVars == <<sc_impl, sc_n, total_messages, sc_last>>

lateVars == <<monVars, closeVars, scVars>>

extVars == <<imVars, stVars, tsVars, vlVars, emVars, rtVars, snVars, lateVars>>

coreVars == <<gwVars, chatVars, callVars, selVars, busVars, trVars, guiVars>>

vars == <<gwVars, chatVars, callVars, selVars, busVars, trVars, guiVars, extVars>>

\* what an action of the gateway or of the chat service leaves alone
chatFrame == <<selVars, busVars, trVars, guiVars, extVars>>

\* what an action of the event bus leaves alone
busFrame == <<gwVars, chatVars, callVars, selVars, trVars, guiVars, extVars>>

\* what an action of the translation path leaves alone
trFrame == <<gwVars, chatVars, callVars, selVars, busVars, guiVars, extVars>>

\* what an action of a GUI shell leaves alone
guiFrame == <<gwVars, chatVars, callVars, selVars, busVars, trVars, extVars>>

GuiIdle ==
    /\ gui_variant = "B"
    /\ gui_button = "normal"
    /\ gui_input = "empty"
    /\ gui_after = <<>>
    /\ gui_workers = [w \in 1..MaxSends |-> "unused"]

NoText == [id |-> "None", pad |-> 0, core |-> 0]

NoTranslation ==
    [original_text |-> NoText, translated_text |-> NoText, status |-> "none",
     model_used |-> None, error_message |-> "None"]

NoTrCall ==
    [op |-> "none", n |-> 0, text |-> NoText, candidates |-> <<>>, outcomes |-> <<>>,
     attempted |-> <<>>, events |-> <<>>, raised |-> "none"]

TrIdle ==
    /\ translation = NoTranslation
    /\ tr_call = NoTrCall

NoEmit ==
    [op |-> "none", kind |-> "none", registered |-> <<>>, raising |-> {},
     calls |-> <<>>, raised |-> FALSE]

NoIter ==
    [active |-> FALSE, done |-> FALSE, kind |-> "", i |-> 0, registered |-> <<>>,
     raising |-> {}, calls |-> <<>>, removed |-> {}, added |-> {}, ops |-> 0]

BusIdle ==
    /\ bus_impl = "EventManager"
    /\ bus_handlers = <<>>
    /\ bus_emit = NoEmit
    /\ bus_iter = NoIter

SelIdle == sel_phase = "idle"

NoPerformance == [consecutive_poor |-> 0, consecutive_excellent |-> 0]

ImIdle ==
    /\ im_phase = "idle"
    /\ difficulty = "intermediate"
    /\ user_performance = NoPerformance
    /\ im_hist = <<>>

StKeys == {"chat_ready", "translation_ready"}

NoStOp ==
    [op |-> "none", n |-> 0, updates |-> <<>>, notify |-> FALSE,
     before |-> [k \in StKeys |-> TRUE], calls |-> <<>>]

StIdle ==
    /\ st_state = [k \in StKeys |-> TRUE]
    /\ st_observers = [k \in StKeys |-> <<>>]
    /\ st_op = NoStOp

TsIdle ==
    /\ translation_history = <<>>
    /\ session_translations = <<>>
    /\ produced = <<>>

NoVlCall == [op |-> "none", text |-> NoText, raised |-> "none", requests |-> 0]

VlIdle == vl_call = NoVlCall

NoEmOp == [op |-> "none", n |-> 0, text |-> <<>>, ret |-> FALSE, before |-> <<>>]

EmIdle ==
    /\ errors_memory = <<>>
    /\ em_op = NoEmOp

NoRtCall ==
    [op |-> "none", n |-> 0, max_retries |-> 0, script |-> <<>>, invocations |-> 0,
     raised |-> "none", ret |-> "none"]

RtIdle == rt_call = NoRtCall

NoTime == 0

NoSession == [end_time |-> NoTime, messages |-> 0, translations |-> 0]

SnIdle ==
    /\ sn_clock = 1
    /\ sn_session = NoSession
    /\ sn_op = "none"

\* the status thread of variant B at the top of its loop, nothing polled yet
MonIdle ==
    /\ mon_variant = "B"
    /\ mon_pc = "top"
    /\ mon_running = TRUE
    /\ ollama_online = FALSE
    /\ mon_hist = <<>>
    /\ mon_sleep = 0

Components == <<"header", "chat_display", "input_area", "footer">>

Sub(type, key, callback) == [type |-> type, key |-> key, callback |-> callback]

\* what _setup_subscriptions of each component registers, in call order
Subscriptions(c) ==
    IF c = "header"
    THEN << Sub("state", "ollama_online", "header._on_connection_change"),
            Sub("state", "models_count", "header._on_models_change"),
            Sub("event", "ollama_connected", "header._on_ollama_connected"),
            Sub("event", "ollama_disconnected", "header._on_ollama_disconnected"),
            Sub("event", "ollama_error", "header._on_ollama_error") >>
    ELSE IF c = "chat_display"
    THEN << Sub("event", "message_sending", "chat_display._on_message_sending"),
            Sub("event", "message_received", "chat_display._on_message_received"),
            Sub("event", "message_error", "chat_display._on_message_error"),
            Sub("event", "translation_success", "chat_display._on_translation_success"),
            Sub("event", "translation_error", "chat_display._on_translation_error") >>
    ELSE IF c = "input_area"
    THEN << Sub("state", "send_button_enabled", "input_area._on_send_button_state_change"),
            Sub("state", "translate_button_enabled",
                "input_area._on_translate_button_state_change"),
            Sub("state", "chat_ready", "input_area._on_chat_ready_change"),
            Sub("state", "translation_ready", "input_area._on_translation_ready_change"),
            Sub("event", "message_sending", "input_area._on_message_sending"),
            Sub("event", "message_received", "input_area._on_message_received"),
            Sub("event", "translation_start", "input_area._on_translation_start"),
            Sub("event", "translation_success", "input_area._on_translation_complete"),
            Sub("event", "translation_error", "input_area._on_translation_complete") >>
    ELSE << Sub("state", "messages_sent", "footer._on_metrics_change"),
            Sub("state", "translations_made", "footer._on_metrics_change"),
            Sub("state", "errors_count", "footer._on_metrics_change") >>

Topic(sub) == <<sub.type, sub.key>>

TopicsOf(subs) == {Topic(subs[i]) : i \in 1..Len(subs)}

\* every topic a component subscribes to, and two that none subscribes to
Topics == UNION {TopicsOf(Subscriptions(Components[c])) : c \in 1..Len(Components)}
          \cup {<<"event", "ui_ready">>, <<"state", "last_response">>}

\* the callbacks of a list of subscriptions that are on one topic, in order
RECURSIVE OnTopic(_, _)
OnTopic(subs, t) ==
    IF subs = <<>> THEN <<>>
    ELSE (IF Topic(Head(subs)) = t THEN <<Head(subs).callback>> ELSE <<>>)
         \o OnTopic(Tail(subs), t)

\* the registries after the four components were constructed in order
RegistryInit ==
    [t \in Topics |-> OnTopic(Subscriptions("header"), t)
                       \o OnTopic(Subscriptions("chat_display"), t)
                       \o OnTopic(Subscriptions("input_area"), t)
                       \o OnTopic(Subscriptions("footer"), t)]

NoClOp == [op |-> "none", topic |-> <<"", "">>, invoked |-> <<>>, destroyed |-> FALSE]

\* the window of variant B is open, its components constructed
ClIdle ==
    /\ cl_pc = "open"
    /\ cl_i = 1
    /\ cl_subs = [c \in {Components[k] : k \in 1..Len(Components)} |-> Subscriptions(c)]
    /\ cl_registry = RegistryInit
    /\ cl_last = NoClOp
    /\ cl_late = {}

NoScTurn == [op |-> "none", failed |-> 0, response |-> "none", aborted |-> FALSE,
             display |-> "none"]

\* SmartChatMode constructed: UserProgress(session_id) starts at 0 messages
ScIdle ==
    /\ sc_impl = "modes"
    /\ sc_n = 0
    /\ total_messages = 0
    /\ sc_last = NoScTurn

LateIdle ==
    /\ MonIdle
    /\ ClIdle
    /\ ScIdle

ExtIdle ==
    /\ ImIdle
    /\ StIdle
    /\ TsIdle
    /\ VlIdle
    /\ EmIdle
    /\ RtIdle
    /\ SnIdle
    /\ LateIdle

NoHttp == Http("none", EmptyText)

Call(op, raised, ret, valid, http, errors_before, gen, attempts) ==
    [op |-> op, raised |-> raised, ret |-> ret, valid |-> valid, http |-> http,
     errors_before |-> errors_before, gen |-> gen, attempts |-> attempts]

NoCall == Call("none", "none", NoMessage, FALSE, NoHttp, 0, NoGen, 0)

Tagged(kinds, t) == [i \in 1..Len(kinds) |-> Event(kinds[i], t)]

LoadAnswer(script) ==
    IF script # <<>> /\ script[Len(script)].kind = "ok"
    THEN [kind |-> "ok", models |-> script[Len(script)].models]
    ELSE [kind |-> "failed", models |-> <<>>]

GwInit ==
    /\ phase = "new"
    /\ available_models = <<>>
    /\ default_model = None
    /\ refreshes = 0
    /\ last_load = [kind |-> "none", models |-> <<>>]

ChatInit ==
    /\ session = <<>>
    /\ app_state = AppStateInit
    /\ turn = 0
    /\ event_log = <<>>
    /\ last_call = NoCall

CoreIdle ==
    /\ GwInit
    /\ ChatInit
    /\ SelIdle
    /\ BusIdle
    /\ TrIdle
    /\ GuiIdle

Init ==
    /\ GwInit
    /\ ChatInit
    /\ SelIdle
    /\ BusIdle
    /\ TrIdle
    /\ GuiIdle
    /\ ExtIdle

\* OllamaService.__init__ -> _initialize_service
InitializeService ==
    /\ phase = "new"
    /\ \E probe \in Probes, script \in LoadScripts :
         LET r == initialize_service(probe, script, available_models, default_model)
         IN /\ available_models' = r.available
            /\ default_model' = r.default
            /\ event_log' = event_log \o Tagged(r.events, 0)
            /\ last_load' = IF check_connection(probe) THEN LoadAnswer(script)
                            ELSE [kind |-> "offline", models |-> <<>>]
            /\ last_call' = Call("init", r.raised, NoMessage, FALSE, NoHttp,
                                 app_state.errors_count, NoGen, r.attempts)
    /\ phase' = "ready"
    /\ UNCHANGED <<chatVars, refreshes, chatFrame>>

\* OllamaService.refresh_models
RefreshModels ==
    /\ phase = "ready"
    /\ refreshes < MaxRefresh
    /\ \E script \in LoadScripts :
         LET r == load_available_models(script, available_models, default_model)
         IN /\ available_models' = r.available
            /\ default_model' = r.default
            /\ event_log' = event_log \o Tagged(r.events, 0)
            /\ last_load' = LoadAnswer(script)
            /\ last_call' = Call("refresh", r.raised, NoMessage, FALSE, NoHttp,
                                 app_state.errors_count, NoGen, r.attempts)
    /\ refreshes' = refreshes + 1
    /\ UNCHANGED <<phase, chatVars, chatFrame>>

\* ChatService.send_message called with any text
SendMessage ==
    /\ phase = "ready"
    /\ turn < MaxTurns
    /\ \E content \in Texts, http \in HttpOutcomes :
         LET r == send_message(content, http, session, app_state, default_model)
         IN /\ session' = r.session
            /\ app_state' = r.state
            /\ event_log' = event_log \o Tagged(r.events, turn + 1)
            /\ last_call' = Call("send_message", r.raised, r.ret,
                                 validate_message(content), http,
                                 app_state.errors_count, r.gen, 0)
    /\ turn' = turn + 1
    /\ UNCHANGED <<gwVars, chatFrame>>

\* InputAreaComponent._handle_send -> EnglishAssistantApp._send_message ->
\* _process_message, one send at a time
HandleSend ==
    /\ phase = "ready"
    /\ turn < MaxTurns
    /\ \E typed \in Typed, http \in HttpOutcomes :
         LET message == Strip(typed)
         IN /\ can_send(app_state)
            /\ validate_message(message)
            /\ TextLen(Strip(message)) # 0
            /\ LET r == process_message(message, http, session, app_state, default_model)
               IN /\ session' = r.session
                  /\ app_state' = r.state
                  /\ event_log' = event_log \o Tagged(r.events, turn + 1)
                  /\ last_call' = Call("handle_send", r.raised, r.ret,
                                       validate_message(message), http,
                                       app_state.errors_count, r.gen, 0)
    /\ turn' = turn + 1
    /\ UNCHANGED <<gwVars, chatFrame>>

Next ==
    \/ InitializeService
    \/ RefreshModels
    \/ SendMessage
    \/ HandleSend

Spec == Init /\ [][Next]_vars

(***************************************************************************)
(* Claims about the chat service and the gateway                            *)
(***************************************************************************)
IsSend(c) == c.op \in {"send_message", "handle_send"}

\* the gateway's generation fails: no model, or the request does not yield a
\* non-empty text
GenerationFails(http, dflt) ==
    \/ dflt = None
    \/ http.kind # "200"
    \/ TextLen(Strip(http.body)) = 0

\* C1: for valid text, when the gateway's generation fails, send_message
\* does not raise, returns a Message tagged error, and the error counter is
\* one higher than before the call.
C1_ErrorMessageOnFailure ==
    (/\ last_call.op = "send_message"
     /\ last_call.valid
     /\ GenerationFails(last_call.http, default_model))
    => /\ last_call.raised = "none"
       /\ last_call.ret.type = "error"
       /\ app_state.errors_count = last_call.errors_before + 1

\* C3: every message_received or message_error event on the bus is preceded
\* by the message_sent event of the same turn.
C3_SentPrecedesOutcome ==
    \A i \in 1..Len(event_log) :
        event_log[i].kind \in {"message_received", "message_error"}
        => \E j \in 1..(i - 1) :
              /\ event_log[j].kind = "message_sent"
              /\ event_log[j].turn = event_log[i].turn

C3_Witness ==
    /\ turn = 2
    /\ \E i \in 1..Len(event_log) :
          event_log[i].kind = "message_received" /\ event_log[i].turn = 2

\* C7: when the server reported zero models, no default model is set and a
\* subsequent generation call without a model argument fails with
\* ModelNotFound.
C7_ZeroModelsNoDefault ==
    (last_load.kind = "ok" /\ last_load.models = <<>>)
    => /\ default_model = None
       /\ (IsSend(last_call) /\ last_call.valid)
             => last_call.gen.caught = "ModelNotFoundError"

\* C9: when every model-list request fails, loading stops after max_retries
\* attempts, emits an error event, leaves the model list empty and returns
\* without raising.
C9_LoadExhaustion ==
    (last_call.op \in {"init", "refresh"} /\ last_load.kind = "failed")
    => /\ last_call.attempts = max_retries
       /\ last_call.raised = "none"
       /\ event_log # <<>>
       /\ event_log[Len(event_log)].kind = "ollama_error"
       /\ available_models = <<>>

C9_Witness ==
    /\ last_call.op = "refresh"
    /\ last_load.kind = "failed"
    /\ last_call.attempts = max_retries
    /\ default_model # None

\* C10 as stated: a non-200 response, a connection failure and a timeout are
\* each signalled by the request operation as a named error.
C10_AllThreeRaise ==
    (IsSend(last_call) /\ last_call.gen.request.raised # "not_called"
       /\ last_call.http.kind \in {"status", "conn_error", "timeout"})
    => last_call.gen.request.raised \in {"OllamaConnectionError", "OllamaTimeoutError"}

\* C10 amended: a connection failure is signalled as the connection error
\* and a timeout as the timeout error; a non-200 response is not signalled
\* as an error, the request operation returns the empty text.
C10_RequestOutcomes ==
    (IsSend(last_call) /\ last_call.gen.request.raised # "not_called")
    => /\ last_call.http.kind = "conn_error"
            => last_call.gen.request.raised = "OllamaConnectionError"
       /\ last_call.http.kind = "timeout"
            => last_call.gen.request.raised = "OllamaTimeoutError"
       /\ last_call.http.kind = "status"
            => /\ last_call.gen.request.raised = "none"
               /\ last_call.gen.request.value = EmptyText

C10_Witness ==
    /\ IsSend(last_call)
    /\ last_call.http.kind = "status"
    /\ last_call.gen.request = RequestResult("none", EmptyText)
    /\ last_call.gen.ret = ApologyEmpty

(***************************************************************************)
(* Default-model selection on its own: _select_best_model applied to the    *)
(* list _load_available_models has just stored                              *)
(***************************************************************************)
SelectLists == SeqsUpTo(ModelNames, MaxListLen)

SelectInit ==
    /\ phase = "ready"
    /\ available_models \in SelectLists
    /\ default_model \in {None, N_phi3}
    /\ refreshes = 0
    /\ last_load = [kind |-> "ok", models |-> available_models]
    /\ ChatInit
    /\ BusIdle
    /\ TrIdle
    /\ GuiIdle
    /\ sel_phase = "loaded"
    /\ ExtIdle

SelectBestModel ==
    /\ sel_phase = "loaded"
    /\ default_model' = select_best_model(available_models, default_model)
    /\ sel_phase' = "selected"
    /\ UNCHANGED <<phase, available_models, refreshes, last_load, chatVars, callVars,
                   busVars, trVars, guiVars, extVars>>

SelectNext == SelectBestModel

SpecSelect == SelectInit /\ [][SelectNext]_vars

Matches(p, name) == Contains(Lower(p), Lower(name))

MatchingPreferences(avail) ==
    {i \in 1..Len(preferred_order) :
        \E j \in 1..Len(avail) : Matches(preferred_order[i], avail[j])}

Least(S) == CHOOSE x \in S : \A y \in S : x <= y

ExpectedDefault(avail) ==
    IF MatchingPreferences(avail) = {} THEN avail[1]
    ELSE LET p == preferred_order[Least(MatchingPreferences(avail))]
         IN avail[Least({j \in 1..Len(avail) : Matches(p, avail[j])})]

\* C8: for a non-empty model list the selected default is the first listed
\* model containing, case-insensitively, the earliest preference substring
\* that matches any listed model, and the first listed model when no
\* preference matches.
C8_SelectionDeterministic ==
    (sel_phase = "selected" /\ available_models # <<>>)
    => default_model = ExpectedDefault(available_models)

C8_Witness ==
    /\ sel_phase = "selected"
    /\ available_models = <<N_llama2_7b, N_Mistral>>
    /\ default_model = N_Mistral

(***************************************************************************)
(* Event manager (core/events.py) and event bus (shared/events)             *)
(***************************************************************************)
HandlerIds == {"h1", "h2"}

BusKinds == {"message_sent", "ollama_error"}

HandlersOf(handlers, kind) ==
    IF kind \in DOMAIN handlers THEN handlers[kind] ELSE <<>>

SetHandlers(handlers, kind, list) ==
    [k \in (DOMAIN handlers) \cup {kind} |-> IF k = kind THEN list ELSE handlers[k]]

RECURSIVE RemoveFirst(_, _)
RemoveFirst(list, h) ==
    IF list = <<>> THEN <<>>
    ELSE IF Head(list) = h THEN Tail(list)
    ELSE <<Head(list)>> \o RemoveFirst(Tail(list), h)

\* a handler call without the surrounding try/except
handler_call_propagate(h, raising) ==
    IF h \in raising THEN "propagate" ELSE "returned"

\* EventManager.emit: try: handler(event, data) except Exception: log
handler_call(h, raising) ==
    IF h \in raising THEN "caught" ELSE "returned"

\* EventBus.emit: try: callback(event) except Exception: log
callback_call(h, raising) ==
    IF h \in raising THEN "caught" ELSE "returned"

EmitResult(calls, raised) == [calls |-> calls, raised |-> raised]

RECURSIVE ManagerLoop(_, _, _, _)
ManagerLoop(i, list, raising, calls) ==
    IF i > Len(list) THEN EmitResult(calls, FALSE)
    ELSE IF handler_call(list[i], raising) = "propagate"
    THEN EmitResult(Append(calls, list[i]), TRUE)
    ELSE ManagerLoop(i + 1, list, raising, Append(calls, list[i]))

RECURSIVE BusLoop(_, _, _, _)
BusLoop(i, list, raising, calls) ==
    IF i > Len(list) THEN EmitResult(calls, FALSE)
    ELSE IF callback_call(list[i], raising) = "propagate"
    THEN EmitResult(Append(calls, list[i]), TRUE)
    ELSE BusLoop(i + 1, list, raising, Append(calls, list[i]))

emit(impl, kind, handlers, raising) ==
    IF kind \notin DOMAIN handlers THEN EmitResult(<<>>, FALSE)
    ELSE IF impl = "EventManager" THEN ManagerLoop(1, handlers[kind], raising, <<>>)
    ELSE BusLoop(1, handlers[kind], raising, <<>>)

BusInit ==
    /\ GwInit
    /\ ChatInit
    /\ SelIdle
    /\ TrIdle
    /\ GuiIdle
    /\ bus_impl \in {"EventManager", "EventBus"}
    /\ bus_handlers = <<>>
    /\ bus_emit = NoEmit
    /\ bus_iter = NoIter
    /\ ExtIdle

BusSubscribe ==
    /\ \E kind \in BusKinds, h \in HandlerIds :
         /\ Len(HandlersOf(bus_handlers, kind)) < MaxHandlers
         /\ bus_handlers' =
               SetHandlers(bus_handlers, kind, Append(HandlersOf(bus_handlers, kind), h))
    /\ UNCHANGED <<bus_impl, bus_emit, bus_iter, busFrame>>

BusUnsubscribe ==
    /\ bus_impl = "EventManager"
    /\ \E kind \in BusKinds, h \in HandlerIds :
         /\ kind \in DOMAIN bus_handlers
         /\ bus_handlers' = SetHandlers(bus_handlers, kind, RemoveFirst(bus_handlers[kind], h))
    /\ UNCHANGED <<bus_impl, bus_emit, bus_iter, busFrame>>

BusClearHandlers ==
    /\ bus_impl = "EventManager"
    /\ \/ \E kind \in BusKinds :
            /\ kind \in DOMAIN bus_handlers
            /\ bus_handlers' = SetHandlers(bus_handlers, kind, <<>>)
       \/ bus_handlers' = <<>>
    /\ UNCHANGED <<bus_impl, bus_emit, bus_iter, busFrame>>

BusEmit ==
    /\ \E kind \in BusKinds, raising \in SUBSET HandlerIds :
         LET r == emit(bus_impl, kind, bus_handlers, raising)
         IN bus_emit' = [op |-> "emit", kind |-> kind,
                         registered |-> HandlersOf(bus_handlers, kind),
                         raising |-> raising, calls |-> r.calls, raised |-> r.raised]
    /\ UNCHANGED <<bus_impl, bus_handlers, bus_iter, busFrame>>

BusNext ==
    \/ BusSubscribe
    \/ BusUnsubscribe
    \/ BusClearHandlers
    \/ BusEmit

SpecBus == BusInit /\ [][BusNext]_vars

Count(h, list) == Cardinality({i \in 1..Len(list) : list[i] = h})

\* C4: when a handler raises during emit, every handler registered for that
\* kind is still invoked once per registration (exactly once when registered
\* once), in registration order, and emit itself does not raise.
C4_HandlerIsolation ==
    (/\ bus_emit.op = "emit"
     /\ \E i \in 1..Len(bus_emit.registered) : bus_emit.registered[i] \in bus_emit.raising)
    => /\ ~bus_emit.raised
       /\ \A h \in HandlerIds : Count(h, bus_emit.calls) = Count(h, bus_emit.registered)

C4_Witness ==
    /\ bus_emit.op = "emit"
    /\ bus_emit.registered = <<"h1", "h2">>
    /\ bus_emit.raising = {"h1"}
    /\ bus_emit.calls = <<"h1", "h2">>
    /\ ~bus_emit.raised

(***************************************************************************)
(* Translation (models/translation.py, OllamaService.translate_text)        *)
(***************************************************************************)
N_llama2_13b == <<"l","l","a","m","a","2",":","1","3","b">>

TrNames == {N_Mistral, N_llama2_7b, N_llama2_13b}

TrLists == SeqsUpTo(TrNames, MaxTrModels)

Translation(text) ==
    [original_text |-> text, translated_text |-> NoText, status |-> "pending",
     model_used |-> None, error_message |-> "None"]

\* mark_completed without `if model_used: self.model_used = model_used`
mark_completed_nomodel(t, translated_text, model_used) ==
    [t EXCEPT !.translated_text = translated_text, !.status = "completed"]

mark_completed(t, translated_text, model_used) ==
    [t EXCEPT !.translated_text = translated_text,
              !.status = "completed",
              !.model_used = IF model_used # None THEN model_used ELSE @]

mark_failed(t, error_message) ==
    [t EXCEPT !.status = "failed", !.error_message = error_message]

InSeq(x, list) == \E i \in 1..Len(list) : list[i] = x

RECURSIVE AddAvailable(_, _, _, _)
AddAvailable(model_name, avail, j, models) ==
    IF j > Len(avail) THEN models
    ELSE IF Contains(model_name, Lower(avail[j])) /\ ~InSeq(avail[j], models)
    THEN AddAvailable(model_name, avail, j + 1, Append(models, avail[j]))
    ELSE AddAvailable(model_name, avail, j + 1, models)

get_translation_models(avail, dflt) ==
    LET models0 == IF dflt # None THEN <<dflt>> ELSE <<>>
        models1 == AddAvailable(S_mistral, avail, 1, models0)
        models2 == AddAvailable(S_llama2, avail, 1, models1)
    IN IF models2 # <<>> THEN models2 ELSE <<S_mistral>>

translation_timeouts == <<20, 30, 45>>

RECURSIVE ExtendTimeouts(_, _)
ExtendTimeouts(timeouts, n) ==
    IF Len(timeouts) < n
    THEN ExtendTimeouts(Append(timeouts, timeouts[Len(timeouts)] + 15), n)
    ELSE timeouts

Zip(models, timeouts) ==
    [i \in 1..(IF Len(models) < Len(timeouts) THEN Len(models) ELSE Len(timeouts))
        |-> [model |-> models[i], timeout |-> timeouts[i]]]

\* an attempt that also accepts a result equal to the input
accepts_unchanged(r, text) == r.raised = "none" /\ TextLen(r.value) # 0

\* translated_text and translated_text != text, with no exception raised
accepts(r, text) == r.raised = "none" /\ TextLen(r.value) # 0 /\ r.value # text

TrResult(t, events, attempted, raised) ==
    [translation |-> t, events |-> events, attempted |-> attempted, raised |-> raised]

RECURSIVE TranslateLoop(_, _, _, _, _, _)
TranslateLoop(i, pairs, text, outcomes, t, attempted) ==
    IF i > Len(pairs)
    THEN TrResult(mark_failed(t, "Translation failed with all models"),
                  <<"translation_start", "translation_error">>, attempted, "none")
    ELSE LET r == make_request(outcomes[i])
             tried == Append(attempted, pairs[i].model)
         IN IF accepts(r, text)
            THEN TrResult(mark_completed(t, r.value, pairs[i].model),
                          <<"translation_start", "translation_success">>, tried, "none")
            ELSE TranslateLoop(i + 1, pairs, text, outcomes, t, tried)

translate_text(text, outcomes, avail, dflt) ==
    LET t == Translation(text)
        models_to_try == get_translation_models(avail, dflt)
        timeouts == ExtendTimeouts(translation_timeouts, Len(models_to_try))
    IN IF ~validate_message(text)
       THEN TrResult(mark_failed(t, "Invalid text content"), <<>>, <<>>, "none")
       ELSE TranslateLoop(1, Zip(models_to_try, timeouts), text, outcomes,
                          [t EXCEPT !.status = "in_progress"], <<>>)

Hola == [id |-> "hola", pad |-> 1, core |-> 4]

TrTexts == {Hello, Padded, Blank}

\* what the server may do on one translation request for the given text
TrOutcomes(text) ==
    {Http("200", b) : b \in {Hola, text, EmptyText}}
      \cup {Http(k, EmptyText) : k \in {"status", "timeout"}}

OutcomeSeqs(text, n) == [1..n -> TrOutcomes(text)]

\* the gateway after OllamaService.__init__ loaded a model list
TrInit ==
    /\ phase = "ready"
    /\ available_models \in TrLists
    /\ default_model = select_best_model(available_models, None)
    /\ refreshes = 0
    /\ last_load = [kind |-> "ok", models |-> available_models]
    /\ ChatInit
    /\ SelIdle
    /\ BusIdle
    /\ TrIdle
    /\ GuiIdle
    /\ ExtIdle

TranslateText ==
    /\ tr_call.n < MaxTranslations
    /\ \E text \in TrTexts :
         \E outcomes \in OutcomeSeqs(text,
                 Len(get_translation_models(available_models, default_model))) :
            LET r == translate_text(text, outcomes, available_models, default_model)
            IN /\ translation' = r.translation
               /\ tr_call' = [op |-> "translate_text", n |-> tr_call.n + 1, text |-> text,
                              candidates |->
                                 get_translation_models(available_models, default_model),
                              outcomes |-> outcomes, attempted |-> r.attempted,
                              events |-> r.events, raised |-> r.raised]
    /\ UNCHANGED trFrame

TrNext == TranslateText

SpecTranslate == TrInit /\ [][TrNext]_vars

\* the i-th candidate's answer is a non-empty text that differs from the input
Yields(i) ==
    /\ tr_call.outcomes[i].kind = "200"
    /\ TextLen(Strip(tr_call.outcomes[i].body)) # 0
    /\ Strip(tr_call.outcomes[i].body) # tr_call.text

YieldingCandidates ==
    IF validate_message(tr_call.text)
    THEN {i \in 1..Len(tr_call.candidates) : Yields(i)}
    ELSE {}

\* C5: translate_text tries the candidates in list order and never raises;
\* the Translation is completed with the first candidate whose result is
\* non-empty and differs from the input, no later candidate being attempted,
\* and it is failed without a translated text exactly when no candidate
\* yields such a result.
C5_FirstYieldingCandidate ==
    tr_call.op = "translate_text"
    => /\ tr_call.raised = "none"
       /\ translation.status \in {"completed", "failed"}
       /\ (translation.status = "failed") <=> (YieldingCandidates = {})
       /\ translation.status = "failed" => translation.translated_text = NoText
       /\ YieldingCandidates # {}
            => /\ translation.status = "completed"
               /\ translation.model_used = tr_call.candidates[Least(YieldingCandidates)]
               /\ tr_call.attempted =
                     SubSeq(tr_call.candidates, 1, Least(YieldingCandidates))
       /\ (YieldingCandidates = {} /\ validate_message(tr_call.text))
            => tr_call.attempted = tr_call.candidates

C5_Witness ==
    /\ tr_call.op = "translate_text"
    /\ Len(tr_call.candidates) = 3
    /\ YieldingCandidates = {3}
    /\ tr_call.outcomes[1].kind = "timeout"
    /\ tr_call.outcomes[2].kind = "status"
    /\ translation.status = "completed"
    /\ translation.model_used = tr_call.candidates[3]

\* C6: a Translation has a translated text exactly when it has a model
\* identifier, and both exactly when its status is completed; a failed
\* Translation has an error message and neither of the two.
C6_TextAndModelTogether ==
    translation.status # "none"
    => /\ (translation.translated_text # NoText) <=> (translation.model_used # None)
       /\ (translation.translated_text # NoText) <=> (translation.status = "completed")
       /\ translation.status = "failed"
            => /\ translation.error_message # "None"
               /\ translation.translated_text = NoText
               /\ translation.model_used = None

C6_Witness ==
    /\ translation.status = "completed"
    /\ translation.translated_text = Strip(Hola)
    /\ translation.model_used = N_llama2_13b
    /\ Len(tr_call.attempted) = 2

(***************************************************************************)
(* The send path of the two GUI shells: main.py (variant A) and             *)
(* ui/app.py with ui/components/input_area.py (variant B)                   *)
(***************************************************************************)
Workers == 1..MaxSends

InFlight == {w \in Workers : gui_workers[w] \in {"dispatched", "in_call", "sending"}}

FreeWorker == CHOOSE w \in Workers : gui_workers[w] = "unused"

GuiInit ==
    /\ GwInit
    /\ ChatInit
    /\ SelIdle
    /\ BusIdle
    /\ TrIdle
    /\ gui_variant \in {"A", "B"}
    /\ gui_button = "normal"
    /\ gui_input = "empty"
    /\ gui_after = <<>>
    /\ gui_workers = [w \in Workers |-> "unused"]
    /\ ExtIdle

\* main.py send_message / InputAreaComponent._handle_send, run on the UI thread
\* by the Send button's command or by the <Control-Return> binding
SendHandler ==
    IF gui_input = "empty"
    THEN UNCHANGED <<gui_button, gui_input, gui_after, gui_workers>>
    ELSE IF gui_variant = "A"
    THEN /\ gui_input' = "empty"
         /\ gui_button' = "disabled"
         /\ gui_workers' = [gui_workers EXCEPT ![FreeWorker] = "dispatched"]
         /\ UNCHANGED gui_after
    ELSE /\ can_send(app_state)
         /\ gui_workers' = [gui_workers EXCEPT ![FreeWorker] = "dispatched"]
         /\ gui_after' = Append(gui_after, "clear")
         /\ UNCHANGED <<gui_button, gui_input>>

\* the user types a message; variant B's <KeyRelease> binding runs
\* _on_text_change, which schedules the Send button's state
GuiType ==
    /\ gui_input = "empty"
    /\ gui_input' = "text"
    /\ gui_after' = IF gui_variant = "B" /\ app_state.chat_ready
                    THEN Append(gui_after, "enable") ELSE gui_after
    /\ UNCHANGED <<gui_variant, gui_button, gui_workers, guiFrame>>

\* a click on the Send button: Tk runs the command only while the button is
\* not disabled
GuiClickSend ==
    /\ gui_button = "normal"
    /\ \E w \in Workers : gui_workers[w] = "unused"
    /\ SendHandler
    /\ UNCHANGED <<gui_variant, guiFrame>>

\* Ctrl+Enter in the input box: the binding calls the handler directly
GuiCtrlEnter ==
    /\ \E w \in Workers : gui_workers[w] = "unused"
    /\ SendHandler
    /\ UNCHANGED <<gui_variant, guiFrame>>

\* the Tk main loop runs the oldest scheduled callback
GuiRunAfter ==
    /\ gui_after # <<>>
    /\ CASE Head(gui_after) = "enable" ->
              /\ gui_button' = "normal"
              /\ gui_after' = Tail(gui_after)
              /\ UNCHANGED gui_input
         [] Head(gui_after) = "disable" ->
              /\ gui_button' = "disabled"
              /\ gui_after' = Tail(gui_after)
              /\ UNCHANGED gui_input
         [] OTHER ->
              \* clear_text: delete the input, then _on_text_change
              /\ gui_input' = "empty"
              /\ gui_after' = Append(Tail(gui_after), "disable")
              /\ UNCHANGED gui_button
    /\ UNCHANGED <<gui_variant, gui_workers, guiFrame>>

\* the worker thread starts running and calls ChatService.send_message
WorkerEnter ==
    /\ \E w \in Workers :
         /\ gui_workers[w] = "dispatched"
         /\ gui_workers' = [gui_workers EXCEPT ![w] = "in_call"]
    /\ UNCHANGED <<gui_variant, gui_button, gui_input, gui_after, guiFrame>>

\* variant B: generate_response emits message_sending, whose handler
\* schedules the button's 'Sending...' state
WorkerSending ==
    /\ gui_variant = "B"
    /\ \E w \in Workers :
         /\ gui_workers[w] = "in_call"
         /\ gui_workers' = [gui_workers EXCEPT ![w] = "sending"]
    /\ gui_after' = Append(gui_after, "disable")
    /\ UNCHANGED <<gui_variant, gui_button, gui_input, guiFrame>>

\* send_message returns.  Variant A re-enables the button in its finally
\* clause; variant B only through the message_received handler
WorkerReturn ==
    /\ \E w \in Workers, received \in BOOLEAN :
         /\ gui_workers[w] = (IF gui_variant = "A" THEN "in_call" ELSE "sending")
         /\ gui_workers' = [gui_workers EXCEPT ![w] = "returned"]
         /\ gui_after' = IF gui_variant = "A" \/ received
                         THEN Append(gui_after, "enable") ELSE gui_after
    /\ UNCHANGED <<gui_variant, gui_button, gui_input, guiFrame>>

GuiNext ==
    \/ GuiType
    \/ GuiClickSend
    \/ GuiCtrlEnter
    \/ GuiRunAfter
    \/ WorkerEnter
    \/ WorkerSending
    \/ WorkerReturn

SpecGui == GuiInit /\ [][GuiNext]_vars

\* C2: from the dispatch of a send until its send_message call has returned
\* no user action (Send click or Ctrl+Enter) can start a second call: at most
\* one send_message call is in progress at any time.
C2_AtMostOneSendInProgress == Cardinality(InFlight) <= 1

(***************************************************************************)
(* Interactive Mode (src/modes/interactive_mode.py): adaptive difficulty    *)
(***************************************************************************)
MaxImEvents == 4

DifficultyLevel == {"beginner", "intermediate", "advanced"}

PoorQualities == {"too_short", "needs_improvement", "needs_help"}

\* word counts around the thresholds 3, 5 and 8 of _assess_response_quality
WordCounts == {2, 4, 5, 8}

assess_response_quality(word_count, has_errors, user_confused) ==
    IF user_confused THEN "needs_help"
    ELSE IF word_count < 3 THEN "too_short"
    ELSE IF word_count < 8 /\ ~has_errors THEN "good_short"
    ELSE IF word_count >= 8 /\ ~has_errors THEN "excellent"
    ELSE IF has_errors /\ word_count >= 5 THEN "good_with_errors"
    ELSE "needs_improvement"

ImState(d, p) == [difficulty |-> d, user_performance |-> p]

\* the state part of _generate_adaptive_question; the question it returns is
\* not modelled
generate_adaptive_question(user_confused, quality, d, p) ==
    IF user_confused
    THEN ImState(d, p)
    ELSE IF quality \in PoorQualities
    THEN LET poor == p.consecutive_poor + 1
         IN IF poor >= 2
            THEN ImState(IF d = "advanced" THEN "intermediate"
                         ELSE IF d = "intermediate" THEN "beginner"
                         ELSE d,
                         [p EXCEPT !.consecutive_poor = 0])
            ELSE ImState(d, [p EXCEPT !.consecutive_poor = poor])
    ELSE IF quality = "excellent"
    THEN LET excellent == p.consecutive_excellent + 1
         IN IF excellent >= 3
            THEN ImState(IF d = "beginner" THEN "intermediate"
                         ELSE IF d = "intermediate" THEN "advanced"
                         ELSE d,
                         [consecutive_poor |-> 0, consecutive_excellent |-> 0])
            ELSE ImState(d, [consecutive_poor |-> 0,
                             consecutive_excellent |-> excellent])
    ELSE ImState(d, [consecutive_poor |-> 0, consecutive_excellent |-> 0])

manual_difficulty_change(direction, d, p) ==
    IF direction = "easier"
    THEN IF d = "advanced" THEN ImState("intermediate", NoPerformance)
         ELSE IF d = "intermediate" THEN ImState("beginner", NoPerformance)
         ELSE ImState(d, p)
    ELSE IF direction = "harder"
    THEN IF d = "beginner" THEN ImState("intermediate", NoPerformance)
         ELSE IF d = "intermediate" THEN ImState("advanced", NoPerformance)
         ELSE ImState(d, p)
    ELSE ImState(d, NoPerformance)

\* numbers of frequent errors around the thresholds 5 and 10; raises is a
\* failing error service
ErrorCounts == {0, 6, 11}

set_automatic_difficulty(total_errors, raises) ==
    IF raises THEN "intermediate"
    ELSE IF total_errors > 10 THEN "beginner"
    ELSE IF total_errors > 5 THEN "intermediate"
    ELSE "advanced"

\* the menu answers; an invalid answer asks again, an interrupt returns
Choices == {"1", "2", "3", "4", "interrupt"}

choose_initial_difficulty(choice, total_errors, raises, d) ==
    IF choice = "1" THEN "beginner"
    ELSE IF choice = "2" THEN "intermediate"
    ELSE IF choice = "3" THEN "advanced"
    ELSE IF choice = "4" THEN set_automatic_difficulty(total_errors, raises)
    ELSE d

ImEvent(op, quality, before, after) ==
    [op |-> op, quality |-> quality, before |-> before, after |-> after]

imFrame == <<coreVars, stVars, tsVars, vlVars, emVars, rtVars, snVars, lateVars>>

\* InteractiveMode.__init__
ImInit ==
    /\ CoreIdle
    /\ StIdle
    /\ TsIdle
    /\ VlIdle
    /\ EmIdle
    /\ RtIdle
    /\ SnIdle
    /\ LateIdle
    /\ im_phase = "new"
    /\ difficulty = "intermediate"
    /\ user_performance = NoPerformance
    /\ im_hist = <<>>

\* run() up to its loop: _choose_initial_difficulty
ImRun ==
    /\ im_phase = "new"
    /\ \E choice \in Choices, total_errors \in ErrorCounts, raises \in BOOLEAN :
         difficulty' = choose_initial_difficulty(choice, total_errors, raises, difficulty)
    /\ im_phase' = "running"
    /\ UNCHANGED <<user_performance, im_hist>>
    /\ UNCHANGED imFrame

\* one pass of the loop of run() with a learner response:
\* _process_and_feedback, then _generate_adaptive_question
ImTurn ==
    /\ im_phase = "running"
    /\ Len(im_hist) < MaxImEvents
    /\ \E word_count \in WordCounts, has_errors \in BOOLEAN, user_confused \in BOOLEAN :
         LET quality == assess_response_quality(word_count, has_errors, user_confused)
             r == generate_adaptive_question(user_confused, quality, difficulty,
                                             user_performance)
         IN /\ difficulty' = r.difficulty
            /\ user_performance' = r.user_performance
            /\ im_hist' = Append(im_hist,
                                 ImEvent("turn", quality, difficulty, r.difficulty))
    /\ UNCHANGED im_phase
    /\ UNCHANGED imFrame

\* one pass of the loop with the command "easier" or "harder":
\* _handle_special_commands -> _manual_difficulty_change
ImManual ==
    /\ im_phase = "running"
    /\ Len(im_hist) < MaxImEvents
    /\ \E direction \in {"easier", "harder"} :
         LET r == manual_difficulty_change(direction, difficulty, user_performance)
         IN /\ difficulty' = r.difficulty
            /\ user_performance' = r.user_performance
            /\ im_hist' = Append(im_hist,
                                 ImEvent(direction, "none", difficulty, r.difficulty))
    /\ UNCHANGED im_phase
    /\ UNCHANGED imFrame

\* one pass of the loop with the command "change_level":
\* _handle_special_commands -> _choose_initial_difficulty
ImChangeLevel ==
    /\ im_phase = "running"
    /\ Len(im_hist) < MaxImEvents
    /\ \E choice \in Choices, total_errors \in ErrorCounts, raises \in BOOLEAN :
         LET d == choose_initial_difficulty(choice, total_errors, raises, difficulty)
         IN /\ difficulty' = d
            /\ im_hist' = Append(im_hist, ImEvent("change_level", "none", difficulty, d))
    /\ UNCHANGED <<im_phase, user_performance>>
    /\ UNCHANGED imFrame

ImNext ==
    \/ ImRun
    \/ ImTurn
    \/ ImManual
    \/ ImChangeLevel

SpecInteractive == ImInit /\ [][ImNext]_vars

LevelRank(d) == IF d = "beginner" THEN 1 ELSE IF d = "intermediate" THEN 2 ELSE 3

LevelUp(d) == IF d = "beginner" THEN "intermediate" ELSE "advanced"

LevelDown(d) == IF d = "advanced" THEN "intermediate" ELSE "beginner"

IsTurn(e) == e.op = "turn"

Turns(h) == SelectSeq(h, IsTurn)

LastEvent == im_hist[Len(im_hist)]

\* the n most recent turns exist and are all of a quality in Q
LastTurnsAre(n, Q) ==
    LET t == Turns(im_hist)
    IN /\ Len(t) >= n
       /\ \A i \in (Len(t) - n + 1)..Len(t) : t[i].quality \in Q

\* the run so far is exactly n turns, all of a quality in Q
RunIsExactly(n, Q) ==
    /\ Len(im_hist) = n
    /\ \A i \in 1..n : IsTurn(im_hist[i]) /\ im_hist[i].quality \in Q

\* C11: a turn raises the difficulty only if it and the two turns before it
\* were all rated excellent, with no turn of another quality between them;
\* and the third of three excellent turns raises it by one level (unchanged
\* at advanced)
C11_RaisedByThreeExcellent ==
    (im_hist # <<>> /\ IsTurn(LastEvent)) =>
        /\ LevelRank(LastEvent.after) > LevelRank(LastEvent.before)
              => LastTurnsAre(3, {"excellent"})
        /\ RunIsExactly(3, {"excellent"})
              => LastEvent.after = LevelUp(LastEvent.before)

\* C12: the second of two consecutive poor-quality turns (too_short,
\* needs_improvement, needs_help) lowers the difficulty by one level
\* (unchanged at beginner), and a turn lowers the difficulty only if it and
\* the turn before it were both poor-quality
C12_LoweredByTwoPoor ==
    (im_hist # <<>> /\ IsTurn(LastEvent)) =>
        /\ RunIsExactly(2, PoorQualities)
              => LastEvent.after = LevelDown(LastEvent.before)
        /\ LevelRank(LastEvent.after) < LevelRank(LastEvent.before)
              => LastTurnsAre(2, PoorQualities)

\* C13: after every manual override command (easier or harder), at any
\* level, both streak counters are zero
C13_OverrideResetsStreaks ==
    (im_hist # <<>> /\ LastEvent.op \in {"easier", "harder"}) =>
        /\ user_performance.consecutive_poor = 0
        /\ user_performance.consecutive_excellent = 0

(***************************************************************************)
(* AppState (core/state.py): the store and its observers                    *)
(***************************************************************************)
MaxStOps == 2

MaxObservers == 2

ObserverIds == {"o1", "o2"}

\* the observer whose callback raises
RaisingObservers == {"o1"}

\* one invocation callback(key, new_value, old_value) inside the try of
\* _notify_observers; store is what AppState._state holds at that moment
ObserverCall(observer, key, new_value, old_value, store) ==
    [observer |-> observer, key |-> key, new_value |-> new_value,
     old_value |-> old_value, store |-> store,
     raised |-> observer \in RaisingObservers]

\* an observer that raises is logged and the loop goes on to the next one
notify_observers(key, new_value, old_value, observers, store) ==
    [i \in 1..Len(observers[key]) |->
        ObserverCall(observers[key][i], key, new_value, old_value, store)]

StResult(store, calls) == [store |-> store, calls |-> calls]

set_always_notify(key, value, notify, store, observers) ==
    LET old_value == store[key]
        stored == [store EXCEPT ![key] = value]
    IN StResult(stored,
                IF notify
                THEN notify_observers(key, value, old_value, observers, stored)
                ELSE <<>>)

set(key, value, notify, store, observers) ==
    LET old_value == store[key]
        stored == [store EXCEPT ![key] = value]
    IN StResult(stored,
                IF notify /\ old_value # value
                THEN notify_observers(key, value, old_value, observers, stored)
                ELSE <<>>)

Change(key, new_value, old_value) ==
    [key |-> key, new_value |-> new_value, old_value |-> old_value]

\* the first loop of update: every key is written, the changed ones are kept
RECURSIVE MutateLoop(_, _, _, _)
MutateLoop(i, updates, store, changes) ==
    IF i > Len(updates)
    THEN [store |-> store, changes |-> changes]
    ELSE LET key == updates[i].key
             value == updates[i].value
             old_value == store[key]
         IN MutateLoop(i + 1, updates, [store EXCEPT ![key] = value],
                       IF old_value # value
                       THEN Append(changes, Change(key, value, old_value))
                       ELSE changes)

\* the second loop of update: the observers of every changed key, in order
RECURSIVE NotifyLoop(_, _, _, _, _)
NotifyLoop(i, changes, observers, store, calls) ==
    IF i > Len(changes)
    THEN calls
    ELSE NotifyLoop(i + 1, changes, observers, store,
                    calls \o notify_observers(changes[i].key, changes[i].new_value,
                                              changes[i].old_value, observers, store))

\* a single loop that notifies as soon as a key is written
RECURSIVE InterleavedLoop(_, _, _, _, _, _)
InterleavedLoop(i, updates, notify, store, observers, calls) ==
    IF i > Len(updates)
    THEN StResult(store, calls)
    ELSE LET r == set(updates[i].key, updates[i].value, notify, store, observers)
         IN InterleavedLoop(i + 1, updates, notify, r.store, observers,
                            calls \o r.calls)

update_interleaved(updates, notify, store, observers) ==
    InterleavedLoop(1, updates, notify, store, observers, <<>>)

update(updates, notify, store, observers) ==
    LET m == MutateLoop(1, updates, store, <<>>)
    IN StResult(m.store,
                IF notify
                THEN NotifyLoop(1, m.changes, observers, m.store, <<>>)
                ELSE <<>>)

Pair(key, value) == [key |-> key, value |-> value]

\* the dicts passed to update: keys in insertion order, no key twice
UpdateMaps ==
    {<<>>}
    \cup {<<Pair(k, v)>> : k \in StKeys, v \in BOOLEAN}
    \cup {m \in {<<Pair(k1, v1), Pair(k2, v2)>> :
                      k1 \in StKeys, k2 \in StKeys, v1 \in BOOLEAN, v2 \in BOOLEAN} :
             m[1].key # m[2].key}

stFrame == <<coreVars, imVars, tsVars, vlVars, emVars, rtVars, snVars, lateVars>>

\* AppState.__init__
StInit ==
    /\ CoreIdle
    /\ ImIdle
    /\ TsIdle
    /\ VlIdle
    /\ EmIdle
    /\ RtIdle
    /\ SnIdle
    /\ LateIdle
    /\ st_state = [k \in StKeys |-> TRUE]
    /\ st_observers = [k \in StKeys |-> <<>>]
    /\ st_op = NoStOp

\* what st_op holds after a call that neither writes nor notifies
StOther(op) ==
    [op |-> op, n |-> st_op.n, updates |-> <<>>, notify |-> FALSE,
     before |-> st_state, calls |-> <<>>]

StSubscribe ==
    /\ \E key \in StKeys, callback \in ObserverIds :
         /\ Len(st_observers[key]) < MaxObservers
         /\ st_observers' = [st_observers EXCEPT ![key] = Append(@, callback)]
    /\ st_op' = StOther("subscribe")
    /\ UNCHANGED st_state
    /\ UNCHANGED stFrame

\* list.remove: the first occurrence goes; a missing callback is only logged
StUnsubscribe ==
    /\ \E key \in StKeys, callback \in ObserverIds :
         st_observers' = [st_observers EXCEPT ![key] = RemoveFirst(@, callback)]
    /\ st_op' = StOther("unsubscribe")
    /\ UNCHANGED st_state
    /\ UNCHANGED stFrame

StSet ==
    /\ st_op.n < MaxStOps
    /\ \E key \in StKeys, value \in BOOLEAN, notify \in BOOLEAN :
         LET r == set(key, value, notify, st_state, st_observers)
         IN /\ st_state' = r.store
            /\ st_op' = [op |-> "set", n |-> st_op.n + 1,
                         updates |-> <<Pair(key, value)>>, notify |-> notify,
                         before |-> st_state, calls |-> r.calls]
    /\ UNCHANGED st_observers
    /\ UNCHANGED stFrame

StUpdate ==
    /\ st_op.n < MaxStOps
    /\ \E updates \in UpdateMaps, notify \in BOOLEAN :
         LET r == update(updates, notify, st_state, st_observers)
         IN /\ st_state' = r.store
            /\ st_op' = [op |-> "update", n |-> st_op.n + 1, updates |-> updates,
                         notify |-> notify, before |-> st_state, calls |-> r.calls]
    /\ UNCHANGED st_observers
    /\ UNCHANGED stFrame

StNext ==
    \/ StSubscribe
    \/ StUnsubscribe
    \/ StSet
    \/ StUpdate

SpecState == StInit /\ [][StNext]_vars

CallsOf(o) == SelectSeq(st_op.calls, LAMBDA c : c.observer = o)

\* C14: for a key with an observer subscribed once, set(key, value) with
\* notification requested invokes that observer exactly once, with
\* (key, value, previous value), when value differs from the stored value,
\* and does not invoke it at all when value equals the stored value
C14_SetNotifiesOnChangeOnly ==
    (st_op.op = "set" /\ st_op.notify) =>
        LET key == st_op.updates[1].key
            value == st_op.updates[1].value
            previous == st_op.before[key]
        IN \A o \in ObserverIds :
              Count(o, st_observers[key]) = 1 =>
                 IF previous # value
                 THEN /\ Len(CallsOf(o)) = 1
                      /\ CallsOf(o)[1].key = key
                      /\ CallsOf(o)[1].new_value = value
                      /\ CallsOf(o)[1].old_value = previous
                 ELSE CallsOf(o) = <<>>

\* a set that changes the value of a key observed once by o1 (whose callback
\* raises) and once by o2
C14_Witness ==
    /\ st_op.op = "set"
    /\ st_op.notify
    /\ st_op.before[st_op.updates[1].key] # st_op.updates[1].value
    /\ st_observers[st_op.updates[1].key] = <<"o1", "o2">>
    /\ st_op.calls[1].raised
    /\ Len(st_op.calls) = 2

\* C15: during update(map), whenever an observer is invoked, every key of
\* the map already holds its new value in the store
C15_UpdateMutatesBeforeNotifying ==
    st_op.op = "update" =>
        \A i \in 1..Len(st_op.calls) :
           \A j \in 1..Len(st_op.updates) :
              st_op.calls[i].store[st_op.updates[j].key] = st_op.updates[j].value

\* an update of two keys that both change and are both observed
C15_Witness ==
    /\ st_op.op = "update"
    /\ Len(st_op.updates) = 2
    /\ \A j \in 1..2 : st_op.before[st_op.updates[j].key] # st_op.updates[j].value
    /\ Len(st_op.calls) >= 2
    /\ st_op.calls[1].key # st_op.calls[Len(st_op.calls)].key

(***************************************************************************)
(* Validation at the service boundary: ChatService.send_message and         *)
(* TranslationService.translate (services/translation_service.py)           *)
(***************************************************************************)
MaxTranslateCalls == 2

\* translation_history keeps its 50 most recent entries
HistoryCap == 50

\* the slice [:50] in place of [-50:]
KeepFirst(list, n) == IF Len(list) > n THEN SubSeq(list, 1, n) ELSE list

KeepLast(list, n) == IF Len(list) > n THEN SubSeq(list, Len(list) - n + 1, Len(list)) ELSE list

TranslateResult(raised, t, history, st, events, attempted) ==
    [raised |-> raised, translation |-> t, history |-> history, state |-> st,
     events |-> events, attempted |-> attempted]

\* translate without its validate_message guard
translate_unguarded(text, outcomes, avail, dflt, history, st) ==
    LET r == translate_text(text, outcomes, avail, dflt)
        t == r.translation
        st1 == IF t.status = "completed"
               THEN [st EXCEPT !.translations_made = @ + 1,
                               !.last_translation = t.translated_text]
               ELSE IF t.status = "failed"
               THEN [st EXCEPT !.errors_count = @ + 1]
               ELSE st
    IN TranslateResult("none", t, KeepLast(Append(history, t), HistoryCap), st1,
                       r.events, r.attempted)

translate(text, outcomes, avail, dflt, history, st) ==
    IF ~validate_message(text)
    THEN TranslateResult("ValueError", NoTranslation, history, st, <<>>, <<>>)
    ELSE LET r == translate_text(text, outcomes, avail, dflt)
             t == r.translation
             st1 == IF t.status = "completed"
                    THEN [st EXCEPT !.translations_made = @ + 1,
                                    !.last_translation = t.translated_text]
                    ELSE IF t.status = "failed"
                    THEN [st EXCEPT !.errors_count = @ + 1]
                    ELSE st
         IN TranslateResult("none", t, KeepLast(Append(history, t), HistoryCap), st1,
                            r.events, r.attempted)

\* texts around the limits of validate_message
BoundaryTexts == {Blank, EmptyText, Longest, TooLong, PaddedLongest}

\* what the server does on the generation request of a send
BoundaryHttp == {Http("200", Reply), Http("timeout", EmptyText)}

\* what the server does on the requests of a translation
BoundaryOutcomes(n) == [1..n -> {Http("200", Hola), Http("timeout", EmptyText)}]

\* number of HTTP requests a send made
Requests(gen) == IF gen.request = NoRequest THEN 0 ELSE 1

vlFrame == <<gwVars, selVars, busVars, guiVars, imVars, stVars, emVars, rtVars, snVars, lateVars>>

\* both services constructed; their gateways loaded one model
VlInit ==
    /\ phase = "ready"
    /\ available_models = <<N_Mistral>>
    /\ default_model = select_best_model(available_models, None)
    /\ refreshes = 0
    /\ last_load = [kind |-> "ok", models |-> available_models]
    /\ ChatInit
    /\ SelIdle
    /\ BusIdle
    /\ TrIdle
    /\ GuiIdle
    /\ ExtIdle

\* ChatService.send_message called directly with any text
VlSendMessage ==
    /\ turn < MaxTurns
    /\ \E content \in BoundaryTexts, http \in BoundaryHttp :
         LET r == send_message(content, http, session, app_state, default_model)
         IN /\ session' = r.session
            /\ app_state' = r.state
            /\ event_log' = event_log \o Tagged(r.events, turn + 1)
            /\ last_call' = Call("send_message", r.raised, r.ret,
                                 validate_message(content), http,
                                 app_state.errors_count, r.gen, 0)
            /\ vl_call' = [op |-> "send_message", text |-> content,
                           raised |-> r.raised, requests |-> Requests(r.gen)]
    /\ turn' = turn + 1
    /\ UNCHANGED <<translation, tr_call, tsVars>>
    /\ UNCHANGED vlFrame

\* TranslationService.translate called with any text
VlTranslate ==
    /\ tr_call.n < MaxTranslateCalls
    /\ \E text \in BoundaryTexts :
         \E outcomes \in BoundaryOutcomes(
                 Len(get_translation_models(available_models, default_model))) :
            LET r == translate(text, outcomes, available_models, default_model,
                               translation_history, app_state)
            IN /\ translation' = r.translation
               /\ translation_history' = r.history
               /\ produced' = IF r.raised = "none"
                               THEN Append(produced, r.translation) ELSE produced
               /\ app_state' = r.state
               /\ event_log' = event_log \o Tagged(r.events, 0)
               /\ tr_call' = [op |-> "translate", n |-> tr_call.n + 1, text |-> text,
                              candidates |->
                                 get_translation_models(available_models, default_model),
                              outcomes |-> outcomes, attempted |-> r.attempted,
                              events |-> r.events, raised |-> r.raised]
               /\ vl_call' = [op |-> "translate", text |-> text, raised |-> r.raised,
                              requests |-> Len(r.attempted)]
    /\ UNCHANGED <<session, turn, last_call, session_translations>>
    /\ UNCHANGED vlFrame

VlNext ==
    \/ VlSendMessage
    \/ VlTranslate

SpecValidate == VlInit /\ [][VlNext]_vars

\* C16: send_message accepts every message of exactly 1000 characters,
\* rejects every message of 1001 characters with a Validation error, and
\* rejects every empty or whitespace-only message
C16_LengthBoundary ==
    vl_call.op = "send_message" =>
        /\ (TextLen(vl_call.text) = MaxMessageLength /\ vl_call.text.core > 0)
              => vl_call.raised = "none"
        /\ TextLen(vl_call.text) = MaxMessageLength + 1
              => vl_call.raised = "ValueError"
        /\ vl_call.text.core = 0 => vl_call.raised = "ValueError"

\* C17: a send_message or translate call with invalid text raises before any
\* side effect: the session's messages, the translation history, every
\* state-store value and the stream of emitted events are as before the
\* call, and no network request is made
C17_InvalidCallHasNoEffect ==
    [][((turn' # turn \/ tr_call'.n # tr_call.n) /\ ~validate_message(vl_call'.text)) =>
          /\ vl_call'.raised = "ValueError"
          /\ session' = session
          /\ translation_history' = translation_history
          /\ app_state' = app_state
          /\ event_log' = event_log
          /\ vl_call'.requests = 0]_vars

\* a rejected translate call after a send and a translation that left
\* messages, a history entry, counters and events behind
C17_Witness ==
    /\ vl_call.op = "translate"
    /\ vl_call.raised = "ValueError"
    /\ ~validate_message(vl_call.text)
    /\ session # <<>>
    /\ translation_history # <<>>
    /\ app_state.messages_sent > 0
    /\ event_log # <<>>

(***************************************************************************)
(* Error memory (src/services/error_service.py)                             *)
(***************************************************************************)
MaxErrOps == 5

\* corrections as produced by the grammar service, and learner texts
T_Be == <<"B","e">>
T_be == <<"b","e">>
T_Go == <<"G","o">>
T_me == <<"m","e">>

Corrections == {T_Be, T_be, T_Go}

LearnerTexts == {T_Be, T_be, T_Go, T_me}

ErrorRecord(key) == [key |-> key, veces |-> 0, originales |-> 0]

\* position of key in the dict, 0 if absent
IndexOf(key, memory) ==
    IF \E i \in 1..Len(memory) : memory[i].key = key
    THEN CHOOSE i \in 1..Len(memory) : memory[i].key = key
    ELSE 0

\* errors_memory is a dict in insertion order; originales is kept by length
register_error(original, correction, memory) ==
    LET key == Lower(correction)
        m == IF IndexOf(key, memory) = 0 THEN Append(memory, ErrorRecord(key))
             ELSE memory
        i == IndexOf(key, m)
    IN [m EXCEPT ![i].veces = @ + 1, ![i].originales = @ + 1]

CheckResult(ret, memory) == [ret |-> ret, memory |-> memory]

\* the loop of check_improvement without the test data["veces"] > 0
RECURSIVE CheckLoopUnguarded(_, _, _)
CheckLoopUnguarded(i, text, memory) ==
    IF i > Len(memory) THEN CheckResult(FALSE, memory)
    ELSE IF Lower(text) = memory[i].key
    THEN CheckResult(TRUE, [memory EXCEPT ![i].veces = @ - 1])
    ELSE CheckLoopUnguarded(i + 1, text, memory)

RECURSIVE CheckLoop(_, _, _)
CheckLoop(i, text, memory) ==
    IF i > Len(memory) THEN CheckResult(FALSE, memory)
    ELSE IF Lower(text) = memory[i].key /\ memory[i].veces > 0
    THEN CheckResult(TRUE, [memory EXCEPT ![i].veces = @ - 1])
    ELSE CheckLoop(i + 1, text, memory)

check_improvement_unguarded(text, memory) == CheckLoopUnguarded(1, text, memory)

check_improvement(text, memory) == CheckLoop(1, text, memory)

emFrame == <<coreVars, imVars, stVars, tsVars, vlVars, rtVars, snVars, lateVars>>

\* ErrorMemoryService.__init__ with no errors file yet
EmInit ==
    /\ CoreIdle
    /\ ImIdle
    /\ StIdle
    /\ TsIdle
    /\ VlIdle
    /\ RtIdle
    /\ SnIdle
    /\ LateIdle
    /\ errors_memory = <<>>
    /\ em_op = NoEmOp

EmRegisterError ==
    /\ em_op.n < MaxErrOps
    /\ \E correction \in Corrections :
         /\ errors_memory' = register_error("original", correction, errors_memory)
         /\ em_op' = [op |-> "register_error", n |-> em_op.n + 1, text |-> correction,
                      ret |-> FALSE, before |-> errors_memory]
    /\ UNCHANGED emFrame

EmCheckImprovement ==
    /\ em_op.n < MaxErrOps
    /\ \E text \in LearnerTexts :
         LET r == check_improvement(text, errors_memory)
         IN /\ errors_memory' = r.memory
            /\ em_op' = [op |-> "check_improvement", n |-> em_op.n + 1, text |-> text,
                         ret |-> r.ret, before |-> errors_memory]
    /\ UNCHANGED emFrame

EmNext ==
    \/ EmRegisterError
    \/ EmCheckImprovement

SpecErrors == EmInit /\ [][EmNext]_vars

\* the records of memory whose correction equals text up to case
Known(text, memory) ==
    {i \in 1..Len(memory) : Lower(memory[i].key) = Lower(text)}

\* C18: check_improvement(text) returns true and decrements the matching
\* record's count by exactly one when text case-insensitively equals a known
\* correction whose count is positive; otherwise it returns false and changes
\* no count; no record's count is ever negative
C18_ImprovementDecrementsPositive ==
    /\ \A i \in 1..Len(errors_memory) : errors_memory[i].veces >= 0
    /\ em_op.op = "check_improvement" =>
          LET hits == {i \in Known(em_op.text, em_op.before) :
                          em_op.before[i].veces > 0}
          IN IF hits # {}
             THEN /\ em_op.ret
                  /\ \E i \in hits :
                        errors_memory = [em_op.before EXCEPT ![i].veces = @ - 1]
             ELSE /\ ~em_op.ret
                  /\ errors_memory = em_op.before

\* a check of a correction that was registered and has been improved down
\* to zero: it returns false and the count stays zero
C18_Witness ==
    /\ em_op.op = "check_improvement"
    /\ ~em_op.ret
    /\ em_op.text = T_Be
    /\ \E i \in Known(em_op.text, em_op.before) :
          /\ em_op.before[i].veces = 0
          /\ em_op.before[i].originales > 0
          /\ errors_memory[i].veces = 0

(***************************************************************************)
(* retry_on_failure (src/utils/error_handler.py)                            *)
(***************************************************************************)
MaxRetryParam == 3

MaxRetryCalls == 1

\* the default of the decorator's max_retries parameter
default_max_retries == 3

\* what one invocation of the wrapped function does: it returns, or it
\* raises one of two exceptions
FuncOutcomes == {"ok", "E1", "E2"}

\* the invocations of one call, in order; the function keeps doing what its
\* last scripted invocation did
FuncScripts(n) == [1..n -> FuncOutcomes]

InvocationAt(script, i) == IF i <= Len(script) THEN script[i] ELSE script[Len(script)]

RetryResult(raised, ret, invocations) ==
    [raised |-> raised, ret |-> ret, invocations |-> invocations]

\* the loop of wrapper over range(max_retries + 1), then raise last_exception
RECURSIVE RetryLoop(_, _, _, _, _)
RetryLoop(attempt, stop, script, last_exception, invocations) ==
    IF attempt >= stop
    THEN RetryResult(last_exception, "none", invocations)
    ELSE LET o == InvocationAt(script, attempt + 1)
         IN IF o = "ok"
            THEN RetryResult("none", "value", invocations + 1)
            ELSE RetryLoop(attempt + 1, stop, script, o, invocations + 1)

\* a wrapper that loops over range(max_retries)
wrapper_without_first_try(max_retries_arg, script) ==
    RetryLoop(0, max_retries_arg, script, "None", 0)

wrapper(max_retries_arg, script) ==
    RetryLoop(0, max_retries_arg + 1, script, "None", 0)

rtFrame == <<coreVars, imVars, stVars, tsVars, vlVars, emVars, snVars, lateVars>>

RtInit ==
    /\ CoreIdle
    /\ ImIdle
    /\ StIdle
    /\ TsIdle
    /\ VlIdle
    /\ EmIdle
    /\ SnIdle
    /\ LateIdle
    /\ rt_call = NoRtCall

\* one call of a function decorated with retry_on_failure(max_retries)
RtCall ==
    /\ rt_call.n < MaxRetryCalls
    /\ \E max_retries_arg \in 0..MaxRetryParam :
         \E script \in FuncScripts(max_retries_arg + 2) :
            LET r == wrapper(max_retries_arg, script)
            IN rt_call' = [op |-> "call", n |-> rt_call.n + 1,
                           max_retries |-> max_retries_arg, script |-> script,
                           invocations |-> r.invocations, raised |-> r.raised,
                           ret |-> r.ret]
    /\ UNCHANGED rtFrame

RtNext == RtCall

SpecRetry == RtInit /\ [][RtNext]_vars

AlwaysFails(script) == \A i \in 1..Len(script) : script[i] # "ok"

\* C19 as stated: an operation wrapped with parameter N that fails on every
\* invocation is invoked at most N times in total, after which the last
\* failure is re-raised
C19_AtMostNInvocations ==
    (rt_call.op = "call" /\ AlwaysFails(rt_call.script)) =>
        /\ rt_call.invocations <= rt_call.max_retries
        /\ rt_call.raised = rt_call.script[rt_call.invocations]

\* C19 amended: an operation wrapped with parameter N that fails on every
\* invocation is invoked exactly N + 1 times (one first try and N retries),
\* after which the failure of the last invocation is re-raised
C19_FirstTryPlusNRetries ==
    (rt_call.op = "call" /\ AlwaysFails(rt_call.script)) =>
        /\ rt_call.invocations = rt_call.max_retries + 1
        /\ rt_call.raised = rt_call.script[rt_call.max_retries + 1]
        /\ rt_call.ret = "none"

\* a call with the default parameter whose every invocation fails, the last
\* two with different exceptions
C19_Witness ==
    /\ rt_call.op = "call"
    /\ rt_call.max_retries = default_max_retries
    /\ AlwaysFails(rt_call.script)
    /\ rt_call.script[default_max_retries] # rt_call.script[default_max_retries + 1]
    /\ rt_call.invocations = default_max_retries + 1
    /\ rt_call.raised = rt_call.script[default_max_retries + 1]

(***************************************************************************)
(* Session (models/session.py)                                              *)
(***************************************************************************)
MaxClock == 4

MaxSessionItems == 2

snFrame == <<coreVars, imVars, stVars, tsVars, vlVars, emVars, rtVars, lateVars>>

\* Session(session_id): end_time is None and both lists are empty
SnInit ==
    /\ CoreIdle
    /\ ImIdle
    /\ StIdle
    /\ TsIdle
    /\ VlIdle
    /\ EmIdle
    /\ RtIdle
    /\ LateIdle
    /\ sn_clock = 1
    /\ sn_session = NoSession
    /\ sn_op = "new"

\* time passes between two calls of datetime.now()
SnTick ==
    /\ sn_clock < MaxClock
    /\ sn_clock' = sn_clock + 1
    /\ UNCHANGED <<sn_session, sn_op>>
    /\ UNCHANGED snFrame

add_message(s) == [s EXCEPT !.messages = @ + 1]

add_translation(s) == [s EXCEPT !.translations = @ + 1]

end_session(s, now) == [s EXCEPT !.end_time = now]

SnAddMessage ==
    /\ sn_session.messages < MaxSessionItems
    /\ sn_session' = add_message(sn_session)
    /\ sn_op' = "add_message"
    /\ UNCHANGED sn_clock
    /\ UNCHANGED snFrame

SnAddTranslation ==
    /\ sn_session.translations < MaxSessionItems
    /\ sn_session' = add_translation(sn_session)
    /\ sn_op' = "add_translation"
    /\ UNCHANGED sn_clock
    /\ UNCHANGED snFrame

SnEndSession ==
    /\ sn_session' = end_session(sn_session, sn_clock)
    /\ sn_op' = "end_session"
    /\ UNCHANGED sn_clock
    /\ UNCHANGED snFrame

SnNext ==
    \/ SnTick
    \/ SnAddMessage
    \/ SnAddTranslation
    \/ SnEndSession

SpecSession == SnInit /\ [][SnNext]_vars

\* C20: once a Session's end time has been set, no subsequent operation on
\* that Session, a further end_session call included, changes it
C20_EndTimeImmutable ==
    [][sn_session.end_time # NoTime => sn_session'.end_time = sn_session.end_time]_vars

(***************************************************************************)
(* Translation history and the owning session                               *)
(* (services/translation_service.py, models/session.py)                     *)
(***************************************************************************)
\* C21: every Translation produced by the Translation Service is appended,
\* in request order, to the owning Session's translation sequence as well as
\* to the service's history
C21_SessionRecordsTranslations ==
    /\ Len(session_translations) = Len(produced)
    /\ \A i \in 1..Len(produced) : session_translations[i] = produced[i]
    /\ translation_history # <<>> =>
          translation_history[Len(translation_history)] = produced[Len(produced)]

\* calls made beyond the one that fills the history
MaxOverflow == 2

\* valid texts for translate
HistoryTexts == {Hello, Longest, PaddedLongest}

\* the calls that fill the history up to one below its cap alternate two
\* texts and succeed; every later call draws any valid text
HistoryInputs(n) ==
    IF n < HistoryCap - 1
    THEN {IF n % 2 = 0 THEN Hello ELSE Longest}
    ELSE HistoryTexts

HistoryOutcomes(n, k) ==
    IF n < HistoryCap - 1
    THEN {[i \in 1..k |-> Http("200", Hola)]}
    ELSE BoundaryOutcomes(k)

\* TranslationService.translate called with a valid text
HsTranslate ==
    /\ Len(produced) < HistoryCap + MaxOverflow
    /\ \E text \in HistoryInputs(Len(produced)) :
         \E outcomes \in HistoryOutcomes(Len(produced),
                 Len(get_translation_models(available_models, default_model))) :
            LET r == translate(text, outcomes, available_models, default_model,
                               translation_history, app_state)
            IN /\ translation' = r.translation
               /\ translation_history' = r.history
               /\ produced' = IF r.raised = "none"
                               THEN Append(produced, r.translation) ELSE produced
               /\ app_state' = r.state
               /\ event_log' = event_log \o Tagged(r.events, 0)
               /\ tr_call' = [op |-> "translate", n |-> tr_call.n + 1, text |-> text,
                              candidates |->
                                 get_translation_models(available_models, default_model),
                              outcomes |-> outcomes, attempted |-> r.attempted,
                              events |-> r.events, raised |-> r.raised]
               /\ vl_call' = [op |-> "translate", text |-> text, raised |-> r.raised,
                              requests |-> Len(r.attempted)]
    /\ UNCHANGED <<session, turn, last_call, session_translations>>
    /\ UNCHANGED vlFrame

HsNext == HsTranslate

SpecHistory == VlInit /\ [][HsNext]_vars

\* C22: after any sequence of valid translate calls the history holds at
\* most 50 entries, and they are the most recent translations in request
\* order (the oldest is evicted on overflow)
C22_HistoryIsLastFifty ==
    /\ Len(translation_history) <= HistoryCap
    /\ Len(translation_history) = IF Len(produced) < HistoryCap
                                  THEN Len(produced) ELSE HistoryCap
    /\ \A i \in 1..Len(translation_history) :
          translation_history[i] =
             produced[Len(produced) - Len(translation_history) + i]

\* two translations were evicted and the newest entry is a failed one
C22_Witness ==
    /\ Len(produced) = HistoryCap + 2
    /\ Len(translation_history) = HistoryCap
    /\ translation_history[HistoryCap].status = "failed"
    /\ translation_history[1] = produced[3]
    /\ produced[3] # produced[2]

(***************************************************************************)
(* The default model after a refresh (services/ollama_service.py)           *)
(***************************************************************************)
\* C28: once the gateway is initialized, also after a refresh_models that
\* fails or returns a different list, the default model is either unset or
\* a member of the current available-model list
C28_DefaultIsAvailableOrUnset ==
    phase = "ready" =>
        \/ default_model = None
        \/ InSeq(default_model, available_models)

(***************************************************************************)
(* EventManager.emit running while another thread subscribes or             *)
(* unsubscribes (core/events.py, ui/components/base.py)                     *)
(***************************************************************************)
\* the kind emitted while the handler list changes
EmitKinds == {"message_sent"}

\* subscribe and unsubscribe calls that may fall inside one emit
MaxConcurrentOps == 2

\* the list may change freely before the emit, and MaxConcurrentOps times
\* while it runs
MayChange == ~bus_iter.done /\ (bus_iter.active => bus_iter.ops < MaxConcurrentOps)

\* emit enters `for handler in self._event_handlers[event]`
EmitBegin ==
    /\ ~bus_iter.active
    /\ ~bus_iter.done
    /\ \E kind \in EmitKinds, raising \in {{}, {"h1"}} :
         /\ kind \in DOMAIN bus_handlers
         /\ bus_iter' = [NoIter EXCEPT !.active = TRUE, !.kind = kind,
                                       !.registered = bus_handlers[kind],
                                       !.raising = raising]
    /\ UNCHANGED <<bus_impl, bus_handlers, bus_emit, busFrame>>

\* one step of the list iterator: the item at its index in the list as it
\* is now, or the end of the loop when the index is past the end
EmitStep ==
    /\ bus_iter.active
    /\ LET list == bus_handlers[bus_iter.kind]
       IN IF bus_iter.i < Len(list)
          THEN /\ bus_iter' =
                     [bus_iter EXCEPT
                         !.i = @ + 1,
                         !.calls = IF handler_call(list[bus_iter.i + 1],
                                                   bus_iter.raising) = "propagate"
                                   THEN @ ELSE Append(@, list[bus_iter.i + 1])]
               /\ UNCHANGED bus_emit
          ELSE /\ bus_iter' = [bus_iter EXCEPT !.active = FALSE, !.done = TRUE]
               /\ bus_emit' = [op |-> "emit", kind |-> bus_iter.kind,
                               registered |-> bus_iter.registered,
                               raising |-> bus_iter.raising,
                               calls |-> bus_iter.calls, raised |-> FALSE]
    /\ UNCHANGED <<bus_impl, bus_handlers, busFrame>>

\* EventManager.subscribe, possibly between two steps of an emit
EmitSubscribe ==
    /\ MayChange
    /\ \E kind \in EmitKinds, h \in HandlerIds :
         /\ Len(HandlersOf(bus_handlers, kind)) < MaxHandlers
         /\ bus_handlers' =
               SetHandlers(bus_handlers, kind, Append(HandlersOf(bus_handlers, kind), h))
         /\ bus_iter' = IF bus_iter.active /\ bus_iter.kind = kind
                        THEN [bus_iter EXCEPT !.added = @ \cup {h}, !.ops = @ + 1]
                        ELSE bus_iter
    /\ UNCHANGED <<bus_impl, bus_emit, busFrame>>

\* EventManager.unsubscribe, possibly between two steps of an emit
EmitUnsubscribe ==
    /\ MayChange
    /\ \E kind \in EmitKinds, h \in HandlerIds :
         /\ kind \in DOMAIN bus_handlers
         /\ bus_handlers' = SetHandlers(bus_handlers, kind, RemoveFirst(bus_handlers[kind], h))
         /\ bus_iter' = IF bus_iter.active /\ bus_iter.kind = kind
                        THEN [bus_iter EXCEPT
                                 !.removed = IF InSeq(h, bus_handlers[kind])
                                             THEN @ \cup {h} ELSE @,
                                 !.ops = @ + 1]
                        ELSE bus_iter
    /\ UNCHANGED <<bus_impl, bus_emit, busFrame>>

EmitNext ==
    \/ EmitSubscribe
    \/ EmitUnsubscribe
    \/ EmitBegin
    \/ EmitStep

EmitInit == CoreIdle /\ ExtIdle

SpecEmit == EmitInit /\ [][EmitNext]_vars

\* C27: when a handler is unsubscribed while an emit of its kind is in
\* progress (and none is subscribed meanwhile), every other handler that was
\* registered when the emit started is still invoked exactly once per
\* registration by that emit
C27_OthersInvokedDespiteUnsubscribe ==
    (bus_iter.done /\ bus_iter.removed # {} /\ bus_iter.added = {})
    => \A h \in HandlerIds \ bus_iter.removed :
          Count(h, bus_iter.calls) = Count(h, bus_iter.registered)

(***************************************************************************)
(* Status monitoring threads: EnglishAssistantApp._status_monitor_loop      *)
(* (ui/app.py) and check_status_loop (main.py)                              *)
(***************************************************************************)
\* polls kept in mon_hist
MaxPolls == 3

\* config.OLLAMA_CONFIG['status_check_interval']
status_check_interval == 10

\* time.sleep(5) in the except branch of _status_monitor_loop
error_sleep == 5

\* time.sleep(10) at the end of every iteration of check_status_loop
legacy_sleep == 10

\* what one poll finds: the probe answers, or something in the try block raises
PollOutcomes == {"online", "offline", "raises"}

Iteration(probe, emitted, shown, sleep, next) ==
    [probe |-> probe, emitted |-> emitted, shown |-> shown, sleep |-> sleep,
     next |-> next]

\* the loop body with its try statement around the while loop
monitor_iteration_try_outside(variant, outcome, current_online) ==
    IF outcome = "raises"
    THEN Iteration(outcome, <<>>, IF variant = "A" THEN "Error" ELSE "", 0, "stopped")
    ELSE IF variant = "A"
    THEN Iteration(outcome, <<>>, IF outcome = "online" THEN "Online" ELSE "Offline",
                   legacy_sleep, "sleep")
    ELSE Iteration(outcome,
                   IF (outcome = "online") # current_online
                   THEN IF outcome = "online" THEN <<"ollama_connected">>
                        ELSE <<"ollama_disconnected">>
                   ELSE <<>>,
                   "", status_check_interval, "sleep")

\* one iteration of the loop body.  Variant A: show the status, on an
\* exception show "Error", then sleep 10.  Variant B: compare the probe with
\* the stored 'ollama_online' and emit on a difference, then sleep the
\* configured interval; on an exception log and sleep 5.
monitor_iteration(variant, outcome, current_online) ==
    IF variant = "A"
    THEN Iteration(outcome, <<>>,
                   IF outcome = "online" THEN "Online"
                   ELSE IF outcome = "offline" THEN "Offline" ELSE "Error",
                   legacy_sleep, "sleep")
    ELSE IF outcome = "raises"
    THEN Iteration(outcome, <<>>, "", error_sleep, "sleep")
    ELSE Iteration(outcome,
                   IF (outcome = "online") # current_online
                   THEN IF outcome = "online" THEN <<"ollama_connected">>
                        ELSE <<"ollama_disconnected">>
                   ELSE <<>>,
                   "", status_check_interval, "sleep")

monFrame == <<coreVars, imVars, stVars, tsVars, vlVars, emVars, rtVars, snVars, closeVars,
              scVars>>

\* either window is up and its status thread is at the top of its loop
MonInit ==
    /\ CoreIdle
    /\ ImIdle /\ StIdle /\ TsIdle /\ VlIdle /\ EmIdle /\ RtIdle /\ SnIdle
    /\ ClIdle
    /\ ScIdle
    /\ mon_variant \in {"A", "B"}
    /\ mon_pc = "top"
    /\ mon_running = TRUE
    /\ ollama_online = FALSE
    /\ mon_hist = <<>>
    /\ mon_sleep = 0

\* the loop condition: `while True` in A, `while self._is_running` in B
MonEnter ==
    /\ mon_pc = "top"
    /\ mon_pc' = IF mon_variant = "A" \/ mon_running THEN "body" ELSE "stopped"
    /\ UNCHANGED <<mon_variant, mon_running, ollama_online, mon_hist, mon_sleep, monFrame>>

\* the try statement of one iteration, up to the call of time.sleep
MonBody ==
    /\ mon_pc = "body"
    /\ \E outcome \in PollOutcomes :
         LET r == monitor_iteration(mon_variant, outcome, ollama_online)
         IN /\ mon_hist' = KeepLast(Append(mon_hist, r), MaxPolls)
            /\ mon_sleep' = r.sleep
            /\ mon_pc' = r.next
    /\ UNCHANGED <<mon_variant, mon_running, ollama_online, monFrame>>

\* time.sleep returns
MonWake ==
    /\ mon_pc = "sleep"
    /\ mon_pc' = "top"
    /\ UNCHANGED <<mon_variant, mon_running, ollama_online, mon_hist, mon_sleep, monFrame>>

\* _on_closing of variant B: self._is_running = False
MonClose ==
    /\ mon_variant = "B"
    /\ mon_running
    /\ mon_running' = FALSE
    /\ UNCHANGED <<mon_variant, mon_pc, ollama_online, mon_hist, mon_sleep, monFrame>>

MonNext ==
    \/ MonEnter
    \/ MonBody
    \/ MonWake
    \/ MonClose

SpecMonitor == MonInit /\ [][MonNext]_vars

\* the status thread is scheduled, its probe has a timeout and time.sleep
\* returns
SpecMonitorFair ==
    /\ MonInit
    /\ [][MonNext]_vars
    /\ WF_vars(MonEnter)
    /\ WF_vars(MonBody)
    /\ WF_vars(MonWake)

LastPoll == mon_hist[Len(mon_hist)]

\* the latest poll raised and no new poll has begun
AfterFailure == mon_hist # <<>> /\ LastPoll.probe = "raises" /\ mon_pc # "body"

\* C25 as stated: while the application is running a failure in a poll
\* iteration never ends the poll loop, and the next poll is attempted after
\* the shortened retry interval
C25_RetryAfterShortenedInterval ==
    /\ [](AfterFailure /\ mon_pc = "sleep" => mon_sleep < status_check_interval)
    /\ (AfterFailure ~> (mon_pc = "body" \/ ~mon_running))

\* C25 amended: while the application is running a failure in a poll
\* iteration never ends the poll loop; the next poll is attempted after the
\* shortened interval of 5 seconds in variant B and after the ordinary 10
\* seconds in variant A
C25_PollLoopSurvivesFailure ==
    /\ [](AfterFailure /\ mon_pc = "sleep" =>
             mon_sleep = IF mon_variant = "B" THEN error_sleep ELSE legacy_sleep)
    /\ (AfterFailure ~> (mon_pc = "body" \/ ~mon_running))

\* a poll begins after the poll before it raised
C25_Witness ==
    /\ mon_pc = "body"
    /\ mon_running
    /\ Len(mon_hist) >= 2
    /\ LastPoll.probe = "raises"

\* C29: the status monitor of variant B emits connected only when the probe
\* went from offline to online between two consecutive polls and
\* disconnected only when it went from online to offline; while the server
\* stays online no further connected event is emitted
C29_EventsOnlyOnTransitions ==
    mon_variant = "B" =>
        \A i \in 2..Len(mon_hist) :
            /\ InSeq("ollama_connected", mon_hist[i].emitted)
                  => mon_hist[i].probe = "online" /\ mon_hist[i - 1].probe # "online"
            /\ InSeq("ollama_disconnected", mon_hist[i].emitted)
                  => mon_hist[i].probe = "offline" /\ mon_hist[i - 1].probe # "offline"

(***************************************************************************)
(* Closing the window of variant B (ui/app.py _on_closing,                  *)
(* _cleanup_components; ui/components/base.py)                              *)
(***************************************************************************)
\* the for loop of _cleanup_subscriptions without its 'state' branch
RECURSIVE CleanupEventsLoop(_, _)
CleanupEventsLoop(subs, registry) ==
    IF subs = <<>> THEN registry
    ELSE CleanupEventsLoop(Tail(subs),
            IF Head(subs).type = "event"
            THEN [registry EXCEPT ![Topic(Head(subs))] = RemoveFirst(@, Head(subs).callback)]
            ELSE registry)

\* the for loop of _cleanup_subscriptions: unsubscribe from the state store
\* or from the event manager, whichever the subscription was made on
RECURSIVE CleanupLoop(_, _)
CleanupLoop(subs, registry) ==
    IF subs = <<>> THEN registry
    ELSE CleanupLoop(Tail(subs),
            [registry EXCEPT ![Topic(Head(subs))] = RemoveFirst(@, Head(subs).callback)])

\* _cleanup_subscriptions that forgets the state observers
cleanup_event_subscriptions_only(subs, registry) == CleanupEventsLoop(subs, registry)

\* UIComponent._cleanup_subscriptions
cleanup_subscriptions(subs, registry) == CleanupLoop(subs, registry)

clFrame == <<coreVars, imVars, stVars, tsVars, vlVars, emVars, rtVars, snVars, monVars,
             scVars>>

CloseInit == CoreIdle /\ ExtIdle

\* the user asks to close the window and answers the confirmation dialog
ClAsk ==
    /\ cl_pc = "open"
    /\ \E ok \in BOOLEAN :
         /\ cl_pc' = IF ok THEN "cleanup" ELSE "open"
         /\ cl_last' = [NoClOp EXCEPT !.op = IF ok THEN "confirm" ELSE "cancel"]
    /\ UNCHANGED <<cl_i, cl_subs, cl_registry, cl_late, clFrame>>

\* one pass of the loop of _cleanup_components: component.destroy()
ClDestroyComponent ==
    /\ cl_pc = "cleanup"
    /\ LET c == Components[cl_i]
       IN /\ cl_registry' = cleanup_subscriptions(cl_subs[c], cl_registry)
          /\ cl_subs' = [cl_subs EXCEPT ![c] = <<>>]
    /\ cl_i' = cl_i + 1
    /\ cl_pc' = IF cl_i = Len(Components) THEN "cleaned" ELSE "cleanup"
    /\ UNCHANGED <<cl_last, cl_late, clFrame>>

\* self.root.destroy()
ClDestroyWindow ==
    /\ cl_pc = "cleaned"
    /\ cl_pc' = "destroyed"
    /\ UNCHANGED <<cl_i, cl_subs, cl_registry, cl_last, cl_late, clFrame>>

\* a service thread emits an event or changes a state value: every
\* callback registered on the topic is invoked
ClNotify ==
    /\ \E t \in Topics :
         /\ cl_last' = [op |-> IF t[1] = "event" THEN "emit" ELSE "set", topic |-> t,
                        invoked |-> cl_registry[t], destroyed |-> cl_pc = "destroyed"]
         /\ cl_late' = IF cl_pc = "destroyed"
                       THEN cl_late \cup {cl_registry[t][k] : k \in 1..Len(cl_registry[t])}
                       ELSE cl_late
    /\ UNCHANGED <<cl_pc, cl_i, cl_subs, cl_registry, clFrame>>

CloseNext ==
    \/ ClAsk
    \/ ClDestroyComponent
    \/ ClDestroyWindow
    \/ ClNotify

SpecClose == CloseInit /\ [][CloseNext]_vars

\* C24: when the window of variant B is closed and the user confirmed, every
\* handler and observer a component registered has been removed before the
\* window is destroyed, and no component handler is invoked by an event
\* emitted or a state change made afterwards
C24_NoComponentHandlerAfterClose ==
    /\ cl_pc = "destroyed" => \A t \in Topics : cl_registry[t] = <<>>
    /\ cl_late = {}

\* an event that two components had subscribed to is emitted after the
\* window was destroyed
C24_Witness ==
    /\ cl_pc = "destroyed"
    /\ cl_last.op = "emit"
    /\ cl_last.destroyed
    /\ Len(RegistryInit[cl_last.topic]) = 2
    /\ cl_last.invoked = <<>>

(***************************************************************************)
(* The Send button after a send has finished (main.py process_message,      *)
(* ui/components/input_area.py)                                             *)
(***************************************************************************)
\* every dispatched send has returned and the Tk main loop has run every
\* callback the sends scheduled
SendsFinished ==
    /\ \E w \in Workers : gui_workers[w] = "returned"
    /\ \A w \in Workers : gui_workers[w] \in {"unused", "returned"}
    /\ gui_after = <<>>

\* C26: in every GUI variant a dispatched send is eventually followed by the
\* Send button being enabled again, whether generation succeeded or failed:
\* once the requests have finished and nothing is left to run, the button is
\* not disabled
C26_SendEnabledAfterRequest ==
    SendsFinished => gui_button = "normal"

(***************************************************************************)
(* Smart-Chat pipelines: SmartChatMode.run (modes/smart_chat_mode.py),      *)
(* MessageProcessor.process_intelligent_message (modes/smart_chat/core),    *)
(* SmartChatMode.process_message (backend/modes/smart_chat_mode.py)         *)
(***************************************************************************)
MaxScTurns == 2

Pipelines == {"modes", "core", "backend"}

\* the eight phases (modes, core) or the eight steps before the history
\* append (backend) of one turn
Phases == 1..8

\* the phase that builds the assistant's response
ResponsePhase(impl) == IF impl = "backend" THEN 5 ELSE 8

\* phase 5 of the run loop is _intelligent_data_storage
StoragePhase == 5

\* a phase works, raises, or gets output from the model it cannot parse
PhaseOutcomes == {"ok", "raises", "unparsable"}

\* the phases of modes and core are methods whose whole body is a try
\* statement with `except Exception` returning a fallback value; the steps
\* of backend are plain calls inside the try statement of process_message
Guarded(impl) == impl \in {"modes", "core"}

\* a phase whose exception handler is missing
phase_result_unguarded(impl, outcome) ==
    IF outcome = "ok" THEN "value" ELSE "propagate"

\* what a phase hands to its caller
phase_result(impl, outcome) ==
    IF outcome = "ok" THEN "value"
    ELSE IF Guarded(impl) THEN "fallback"
    ELSE "propagate"

\* the phases in order, up to the first exception that leaves its phase
RECURSIVE RunPhases(_, _, _, _)
RunPhases(impl, k, outcomes, results) ==
    IF k > 8 THEN [results |-> results, propagated |-> FALSE]
    ELSE LET r == phase_result(impl, outcomes[k])
         IN IF r = "propagate"
            THEN [results |-> results, propagated |-> TRUE]
            ELSE RunPhases(impl, k + 1, outcomes, Append(results, r))

Failing(outcomes) == Cardinality({k \in Phases : outcomes[k] # "ok"})

ScTurnResult(failed, response, aborted, display, counted) ==
    [failed |-> failed, response |-> response, aborted |-> aborted,
     display |-> display, counted |-> counted]

\* one turn.  core and backend catch what leaves a step and return a result
\* with a fixed ai_response; the run loop of modes prints the error and
\* goes on to the next input.  In modes the storage phase and, after the
\* response was displayed, _update_learning_analytics each add 1 to
\* total_messages.
process_turn(impl, outcomes, display) ==
    LET run == RunPhases(impl, 1, outcomes, <<>>)
        reached == Len(run.results)
        stored == IF impl = "modes" /\ (reached >= StoragePhase
                                        \/ (reached = StoragePhase - 1 /\ run.propagated))
                  THEN 1 ELSE 0
    IN IF run.propagated
       THEN IF impl = "modes"
            THEN ScTurnResult(Failing(outcomes), "none", TRUE, "none", stored)
            ELSE ScTurnResult(Failing(outcomes), "fallback", FALSE, "none", 0)
       ELSE LET response == IF run.results[ResponsePhase(impl)] = "value"
                            THEN "generated" ELSE "fallback"
            IN IF impl = "modes"
               THEN ScTurnResult(Failing(outcomes), response, FALSE, display,
                                 stored + (IF display = "ok" THEN 1 ELSE 0))
               ELSE ScTurnResult(Failing(outcomes), response, FALSE, "none", 0)

scFrame == <<coreVars, imVars, stVars, tsVars, vlVars, emVars, rtVars, snVars, monVars,
             closeVars>>

ScInit ==
    /\ CoreIdle
    /\ ImIdle /\ StIdle /\ TsIdle /\ VlIdle /\ EmIdle /\ RtIdle /\ SnIdle
    /\ MonIdle
    /\ ClIdle
    /\ sc_impl \in Pipelines
    /\ sc_n = 0
    /\ total_messages = 0
    /\ sc_last = NoScTurn

\* the user enters a message that is neither empty nor a command.
\* _display_intelligent_bilingual_response prints the response first and
\* may raise afterwards on analysis values of an unexpected shape
ScTurn ==
    /\ sc_n < MaxScTurns
    /\ \E outcomes \in [Phases -> PhaseOutcomes], display \in {"ok", "raises"} :
         LET r == process_turn(sc_impl, outcomes, display)
         IN /\ sc_last' = [op |-> "turn", failed |-> r.failed, response |-> r.response,
                           aborted |-> r.aborted, display |-> r.display]
            /\ total_messages' = total_messages + r.counted
    /\ sc_n' = sc_n + 1
    /\ UNCHANGED <<sc_impl, scFrame>>

ScNext == ScTurn

SpecSmartChat == ScInit /\ [][ScNext]_vars

C30_TotalMessagesCountsTurns ==
    sc_impl = "modes" => total_messages = sc_n

====
